---- MODULE Spec2Model ----
(***************************************************************************)
(* Authentication core of rocket-taro-server: the request guard that       *)
(* resolves a session token (Redis first, PostgreSQL as fallback), the     *)
(* password login with its failure counter, logout, the WeChat login and   *)
(* the profile update, over a PostgreSQL model (users, user_sessions) and  *)
(* a Redis model (keys with a time to live).                               *)
(*                                                                         *)
(* Time is a discrete clock.  The two 7-day periods of the code (the       *)
(* validity of a session row and the TTL of the session cache keys) are    *)
(* the same number of ticks, and the 15-minute TTL of the failure counter  *)
(* is shorter, as in the code.                                             *)
(*                                                                         *)
(* Every handler is one action.  Each Redis command and each PostgreSQL    *)
(* query of a handler has a label; the handler's inputs cf and df are the  *)
(* sets of labels of the commands and queries that fail in this run.       *)
(***************************************************************************)
EXTENDS Integers, Sequences, FiniteSets, TLC

\* ---------------------------------------------------------------- bounds
MaxTime == 3        \* the clock stops here, after a session has expired
MaxTokens == 2      \* session tokens generated in one behaviour
MaxCount == 6       \* cap of a failure counter (it passes 5 when reads fail)
MaxFaults == 1      \* requests of one behaviour in which a command or query fails
MaxScan == 5         \* session tokens in the key scan of invalidate_user_sessions
NumRequests == 3     \* requests that run concurrently on the one connection

\* ------------------------------------------------------ program constants
USER_SESSION == 2       \* ttl::USER_SESSION, 7 days
SESSION_DAYS == 2       \* Duration::days(7) of create_user_session
LOGIN_ATTEMPTS == 1     \* ttl::LOGIN_ATTEMPTS, 15 minutes
MAX_ATTEMPTS == 5       \* is_account_locked(&login_req.username, 5)

None == [some |-> FALSE]            \* Option::None
Some(x) == [some |-> TRUE, v |-> x]   \* Option::Some(x)
Null == "<null>"                    \* None of an Option<String> column
NoTTL == -1                         \* a Redis key that carries no expiry
NoToken == 0                        \* a request without cookie and header
Range(f) == {f[i] : i \in DOMAIN f}   \* the elements of a Vec or tuple

VARIABLES
    now,          \* the clock (Utc::now, CURRENT_TIMESTAMP)
    users,        \* PostgreSQL table users: id -> row
    sessions,     \* PostgreSQL table user_sessions: a set of rows
    tokenCount,   \* session tokens generated so far (each is fresh)
    cache,        \* Redis: one map per key category, key -> [v, exp]
    hist,         \* per username, the current streak of failed logins (history)
    loggedOut,    \* per token, how its last completed logout went (history)
    faults,       \* requests so far in which a command or query failed
    pool,         \* DbPool, the Mutex around the one Client: holders, waiters
    req           \* the requests in flight: per request, where it stands

vars == <<now, users, sessions, tokenCount, cache, hist, loggedOut, faults,
          pool, req>>

\* ------------------------------------------------------------ Redis
\* RedisPool::get: a failing GET is logged and answered Ok(None).
RedisGet(m, k, fail) ==
    IF fail \/ k \notin DOMAIN m THEN None ELSE Some(m[k].v)

\* RedisPool::set: SETEX key ttl value; a failure is returned as Err.
RedisSet(m, k, v, ttl, fail) ==
    IF fail THEN m
    ELSE [x \in DOMAIN m \cup {k} |->
            IF x = k THEN [v |-> v, exp |-> now + ttl] ELSE m[x]]

\* RedisPool::delete: DEL key; a failing DEL is logged and answered Ok(false).
RedisDelete(m, k, fail) ==
    IF fail THEN m ELSE [x \in DOMAIN m \ {k} |-> m[x]]

\* An increment that starts over at 1 whatever the key holds.
RedisIncrement_FromOne(m, k, fail) ==
    IF fail THEN m
    ELSE [x \in DOMAIN m \cup {k} |->
            IF x # k THEN m[x] ELSE [v |-> 1, exp |-> NoTTL]]

\* RedisPool::increment: INCR creates an absent key at 1 without expiry
\* and keeps the expiry of a present one; a failure is returned as Err.
RedisIncrement(m, k, fail) ==
    IF fail THEN m
    ELSE [x \in DOMAIN m \cup {k} |->
            IF x # k THEN m[x]
            ELSE IF k \in DOMAIN m THEN [v |-> m[k].v + 1, exp |-> m[k].exp]
                 ELSE [v |-> 1, exp |-> NoTTL]]

\* RedisPool::expire: EXPIRE key ttl; a failure is logged and answered Ok(false).
RedisExpire(m, k, ttl, fail) ==
    IF fail \/ k \notin DOMAIN m THEN m
    ELSE [m EXCEPT ![k].exp = now + ttl]

\* RedisPool::keys: KEYS pattern; a failure is logged and answered Ok(vec![]).
RedisKeys(m, fail) == IF fail THEN {} ELSE DOMAIN m

\* Redis drops a key once its time to live has run out.
Unexpired(m, t) ==
    [x \in {k \in DOMAIN m : m[k].exp = NoTTL \/ t < m[k].exp} |-> m[x]]

EmptyMap == [x \in {} |-> None]

\* ------------------------------------------------------------ PostgreSQL
\* A verify that compares the supplied text with the stored one.
PasswordVerify_Plain(stored, supplied) == stored = supplied

\* PasswordHash::verify: bcrypt::verify(..).unwrap_or(false).  The stored
\* hash of a WeChat user is the empty string, which bcrypt rejects.
PasswordVerify(stored, supplied) == stored # "" /\ stored = supplied

\* The User that authenticate_user and validate_session build: the columns
\* their SELECT lists (the email and the timestamps are left out of the model).
UserOf(id) ==
    [id |-> id, username |-> users[id].username,
     full_name |-> users[id].full_name, avatar_url |-> users[id].avatar_url,
     is_active |-> users[id].is_active, is_admin |-> users[id].is_admin]

\* database::auth::authenticate_user:
\*   SELECT .. FROM users WHERE username = $1 AND is_active = true,
\* then the password check.
AuthenticateUser(username, password) ==
    LET found == {id \in DOMAIN users :
                    users[id].username = username /\ users[id].is_active}
    IN  IF found = {} THEN None
        ELSE LET id == CHOOSE i \in found : TRUE
             IN  IF PasswordVerify(users[id].password, password)
                 THEN Some(UserOf(id)) ELSE None

\* A session row that has expired when it is inserted.
NewSession_Expired(user_id, n) ==
    [id |-> n, user_id |-> user_id, session_token |-> n, expires_at |-> now]

\* database::auth::create_user_session: the row inserted for the n-th token.
NewSession(user_id, n) ==
    [id |-> n, user_id |-> user_id, session_token |-> n,
     expires_at |-> now + SESSION_DAYS]

\* database::auth::validate_session:
\*   .. FROM user_sessions s JOIN users u ON s.user_id = u.id
\*   WHERE s.session_token = $1 AND s.expires_at > CURRENT_TIMESTAMP
\*     AND u.is_active = true
ValidateSession(tok) ==
    LET rows == {s \in sessions : s.session_token = tok /\ s.expires_at > now
                                  /\ users[s.user_id].is_active}
    IN  IF rows = {} THEN None
        ELSE LET s == CHOOSE r \in rows : TRUE
             IN  Some([user |-> UserOf(s.user_id), session |-> s])

\* database::auth::logout_session: DELETE FROM user_sessions WHERE session_token = $1
LogoutSession(tok) == {s \in sessions : s.session_token # tok}

\* A sweep that also deletes the rows that expire at this very instant.
CleanupExpiredSessions_Inclusive(rows) == {s \in rows : s.expires_at > now}

\* database::auth::cleanup_expired_sessions:
\*   DELETE FROM user_sessions WHERE expires_at < CURRENT_TIMESTAMP
\* The rows that are left; rows_affected is the number of the others.
CleanupExpiredSessions(rows) == {s \in rows : ~(s.expires_at < now)}

\* ------------------------------------------------------------ cache layer
\* A projection that drops the admin flag.
CachedUserOf_NoAdmin(user) ==
    [id |-> user.id, username |-> user.username,
     full_name |-> user.full_name, avatar_url |-> user.avatar_url,
     is_active |-> user.is_active, is_admin |-> FALSE]

\* impl From<User> for CachedUser.
CachedUserOf(user) ==
    [id |-> user.id, username |-> user.username,
     full_name |-> user.full_name, avatar_url |-> user.avatar_url,
     is_active |-> user.is_active, is_admin |-> user.is_admin]

\* SessionCache::cache_user_session: SETEX user_session:<token>.
CacheUserSession(c, user, session, fail) ==
    [c EXCEPT !.user_session =
        RedisSet(@, session.session_token,
                 [user |-> CachedUserOf(user), session |-> session],
                 USER_SESSION, fail)]

\* SessionCache::cache_session: SETEX session_token:<token>, then SETEX
\* session:<id>; the first failure returns Err and ends the function.
CacheSession(c, session, cf) ==
    LET c1 == [c EXCEPT !.session_token =
                    RedisSet(@, session.session_token, session, USER_SESSION,
                             "set_token" \in cf)]
    IN  IF "set_token" \in cf THEN c
        ELSE [c1 EXCEPT !.session =
                    RedisSet(@, session.id, session, USER_SESSION, "set_id" \in cf)]

\* SessionCache::update_session_access: SETEX session_access:<token> now.
UpdateSessionAccess(c, tok, fail) ==
    [c EXCEPT !.session_access = RedisSet(@, tok, now, USER_SESSION, fail)]

\* An invalidation that leaves the combined projection in place.
InvalidateSession_KeepProjection(c, tok, cf) ==
    LET got == RedisGet(c.session_token, tok, "inv_get" \in cf)
        c1  == IF got.some
               THEN [c EXCEPT !.session =
                        RedisDelete(@, got.v.id, "inv_del_id" \in cf)]
               ELSE c
    IN  [c1 EXCEPT !.session_token =
                        RedisDelete(@, tok, "inv_del_token" \in cf)]

\* SessionCache::invalidate_session: GET session_token:<token>, DEL of the
\* session:<id> key it names, DEL session_token:<token>, DEL user_session:<token>.
InvalidateSession(c, tok, cf) ==
    LET got == RedisGet(c.session_token, tok, "inv_get" \in cf)
        c1  == IF got.some
               THEN [c EXCEPT !.session =
                        RedisDelete(@, got.v.id, "inv_del_id" \in cf)]
               ELSE c
        c2  == [c1 EXCEPT !.session_token =
                        RedisDelete(@, tok, "inv_del_token" \in cf)]
    IN  [c2 EXCEPT !.user_session =
                        RedisDelete(@, tok, "inv_del_user_session" \in cf)]

\* The Redis commands SessionCache::invalidate_session issues: the GET, the
\* DEL of session:<id> only for a session the GET returned, the two DELs.
InvalidateSessionIssued(c, tok, cf) ==
    LET got == RedisGet(c.session_token, tok, "inv_get" \in cf)
    IN  {"inv_get", "inv_del_token", "inv_del_user_session"}
            \cup (IF got.some THEN {"inv_del_id"} ELSE {})

\* The labels of the commands of invalidate_session.
InvalidateOps == {"inv_get", "inv_del_id", "inv_del_token", "inv_del_user_session"}

\* UserCache::get_login_failures: Ok(count) under login_failures:<username>,
\* Ok(0) when RedisPool::get answers None, which it also does for a failing
\* GET; the Err arm of the `?` is never taken.
GetLoginFailures(c, username, fail) ==
    LET got == RedisGet(c.login_failures, username, fail)
    IN  IF got.some THEN Some(got.v) ELSE Some(0)

\* A lock that needs one failure more than max_attempts.
IsAccountLocked_Greater(c, username, max_attempts, fail) ==
    LET failures == GetLoginFailures(c, username, fail)
    IN  IF failures.some THEN Some(failures.v > max_attempts) ELSE None

\* UserCache::is_account_locked: Ok(failures >= max_attempts), or the Err
\* that get_login_failures returned (None).
IsAccountLocked(c, username, max_attempts, fail) ==
    LET failures == GetLoginFailures(c, username, fail)
    IN  IF failures.some THEN Some(failures.v >= max_attempts) ELSE None

\* UserCache::record_login_failure: INCR, then EXPIRE with LOGIN_ATTEMPTS.
\* A failing INCR returns Err before the EXPIRE is issued.
RecordLoginFailure(c, username, cf) ==
    IF "incr" \in cf
    THEN [cache |-> c, count |-> None]
    ELSE LET m == RedisIncrement(c.login_failures, username, FALSE)
         IN  [cache |-> [c EXCEPT !.login_failures =
                            RedisExpire(m, username, LOGIN_ATTEMPTS, "expire" \in cf)],
              count |-> Some(m[username].v)]

\* A clear that leaves the counter where it is.
ClearLoginFailures_Keep(c, username, fail) == c

\* UserCache::clear_login_failures: DEL login_failures:<username>.
ClearLoginFailures(c, username, fail) ==
    [c EXCEPT !.login_failures = RedisDelete(@, username, fail)]

\* ------------------------------------------------------------ the guard
\* from_request on a cache hit: the marker write, whose failure is logged
\* only, then the identity rebuilt from the cached projection.
CacheHit(c, tok, cached, cf) ==
    [outcome |-> "Success",
     identity |-> Some([user |-> cached.user, session |-> cached.session]),
     cache |-> UpdateSessionAccess(c, tok, "set_access" \in cf),
     path |-> "cache", cerr |-> {"set_access"} \cap cf]

\* A fallback that reports a failed validate_session as Invalid.
FallbackToDatabase_ErrAsInvalid(c, tok, cf, df) ==
    LET row == IF "validate_session" \in df THEN None ELSE ValidateSession(tok)
        getErr == {"get_user_session"} \cap cf
    IN  IF row.some
        THEN [outcome |-> "Success", identity |-> row,
              cache |-> CacheUserSession(c, row.v.user, row.v.session,
                                         "set_user_session" \in cf),
              path |-> "db", cerr |-> getErr \cup ({"set_user_session"} \cap cf)]
        ELSE [outcome |-> "Invalid", identity |-> None, cache |-> c,
              path |-> "db", cerr |-> getErr]

\* A fallback that gives up with a server fault when the lookup had failed.
FallbackToDatabase_LookupFatal(c, tok, cf, df) ==
    LET row == ValidateSession(tok)
        getErr == {"get_user_session"} \cap cf
    IN  IF "validate_session" \in df \/ getErr # {}
        THEN [outcome |-> "DatabaseError", identity |-> None, cache |-> c,
              path |-> "db", cerr |-> getErr]
        ELSE IF row.some
        THEN [outcome |-> "Success", identity |-> row,
              cache |-> CacheUserSession(c, row.v.user, row.v.session,
                                         "set_user_session" \in cf),
              path |-> "db", cerr |-> {"set_user_session"} \cap cf]
        ELSE [outcome |-> "Invalid", identity |-> None, cache |-> c,
              path |-> "db", cerr |-> getErr]

\* from_request after a cache miss or a failed lookup: validate_session,
\* and for the row it returns the re-population, whose failure is logged only.
FallbackToDatabase(c, tok, cf, df) ==
    LET row == ValidateSession(tok)
        getErr == {"get_user_session"} \cap cf
    IN  IF "validate_session" \in df
        THEN [outcome |-> "DatabaseError", identity |-> None, cache |-> c,
              path |-> "db", cerr |-> getErr]
        ELSE IF row.some
        THEN [outcome |-> "Success", identity |-> row,
              cache |-> CacheUserSession(c, row.v.user, row.v.session,
                                         "set_user_session" \in cf),
              path |-> "db", cerr |-> getErr \cup ({"set_user_session"} \cap cf)]
        ELSE [outcome |-> "Invalid", identity |-> None, cache |-> c,
              path |-> "db", cerr |-> getErr]

\* AuthenticatedUser::from_request for the credential tok, on the cache c.
\* The result carries the outcome, the identity, the cache afterwards, the
\* path taken and the Redis commands that failed among those issued.
FromRequest(c, tok, cf, df) ==
    LET cached == RedisGet(c.user_session, tok, "get_user_session" \in cf)
    IN  IF tok = NoToken
        THEN [outcome |-> "Missing", identity |-> None, cache |-> c,
              path |-> "none", cerr |-> {}]
        ELSE IF cached.some THEN CacheHit(c, tok, cached.v, cf)
        ELSE FallbackToDatabase(c, tok, cf, df)

\* The labels of the guard's Redis commands and of its query.
GuardCacheOps == {"get_user_session", "set_access", "set_user_session"}
GuardDbOps == {"validate_session"}

\* The credentials a client can present: none, a token that was issued,
\* or a value that never was a token.
BadToken == MaxTokens + 1
Presented == {NoToken, BadToken} \cup (1..tokenCount)

\* ------------------------------------------------- the credential in HTTP
\* The text of a session token in a cookie or a header, and the token of
\* the model that a text stands for: a text that is no issued token's text
\* (the empty text included) is a value that never was a token.
TokenText(t) == ToString(t)

TokenOfText(text) ==
    IF \E t \in 1..MaxTokens : TokenText(t) = text
    THEN CHOOSE t \in 1..MaxTokens : TokenText(t) = text
    ELSE BadToken

\* The tokens whose text a client puts into a cookie or a header: the
\* first token issued and a value that never was a token.
CredentialTokens == {1, BadToken}

\* The session_token cookie of a request: absent, or present with a value
\* and either sealed by the server's secret key or not.
Cookies ==
    {None} \cup {Some([sealed |-> b, value |-> TokenText(t)]) :
                    b \in BOOLEAN, t \in CredentialTokens}

\* The Authorization header of a request: absent, or one of these texts.
Headers ==
    {None} \cup {Some(h \o TokenText(t)) :
                    h \in {"Bearer ", "bearer ", "Basic ", "Bearer"},
                    t \in CredentialTokens}
           \cup {Some("Bearer "), Some("Bearer"), Some("")}

\* CookieJar::get_private: the value of a cookie that authenticates and
\* decrypts under the secret key; any other cookie reads as absent.
GetPrivate(cookie) ==
    IF cookie.some /\ cookie.v.sealed THEN Some(cookie.v.value) ELSE None

\* The closure over the Authorization header in from_request:
\* auth.starts_with("Bearer ") and then auth[7..].
BearerToken(auth) ==
    IF Len(auth) >= 7 /\ SubSeq(auth, 1, 7) = "Bearer "
    THEN Some(SubSeq(auth, 8, Len(auth)))
    ELSE None

\* A from_request that looks at the Authorization header first.
SessionToken_HeaderFirst(cookie, header) ==
    LET b == IF header.some THEN BearerToken(header.v) ELSE None
    IN  IF b.some THEN b ELSE GetPrivate(cookie)

\* session_token of from_request: the private cookie, or else the header.
SessionToken(cookie, header) ==
    LET c == GetPrivate(cookie)
    IN  IF c.some THEN c
        ELSE IF header.some THEN BearerToken(header.v)
        ELSE None

\* AuthenticatedUser::from_request for a request with this cookie and this
\* Authorization header.
FromRequestHttp(c, cookie, header, cf, df) ==
    LET session_token == SessionToken(cookie, header)
    IN  FromRequest(c, IF session_token.some THEN TokenOfText(session_token.v)
                       ELSE NoToken, cf, df)

\* The HTTP status that from_request attaches to each AuthError.
StatusOf(outcome) ==
    CASE outcome = "Missing" -> "Unauthorized"
      [] outcome = "Invalid" -> "Unauthorized"
      [] outcome = "DatabaseError" -> "InternalServerError"
      [] OTHER -> "Ok"

\* An admin guard that answers every failure as Forbidden.
AdminFromRequest_AllForbidden(c, tok, cf, df) ==
    LET r == FromRequest(c, tok, cf, df)
    IN  IF r.outcome = "Success" /\ r.identity.v.user.is_admin
        THEN [outcome |-> "Success", status |-> "Ok", identity |-> r.identity,
              cache |-> r.cache]
        ELSE [outcome |-> "Invalid", status |-> "Forbidden", identity |-> None,
              cache |-> r.cache]

\* impl FromRequest for AdminUser: the plain guard, then the is_admin flag
\* of its user; an Error of the plain guard is returned as it is.
AdminFromRequest(c, tok, cf, df) ==
    LET r == FromRequest(c, tok, cf, df)
    IN  IF r.outcome = "Success"
        THEN IF r.identity.v.user.is_admin
             THEN [outcome |-> "Success", status |-> "Ok", identity |-> r.identity,
                   cache |-> r.cache]
             ELSE [outcome |-> "Invalid", status |-> "Forbidden", identity |-> None,
                   cache |-> r.cache]
        ELSE [outcome |-> r.outcome, status |-> StatusOf(r.outcome),
              identity |-> None, cache |-> r.cache]

\* An optional guard that hands on the Error of the plain guard.
OptionalFromRequest_PassError(c, tok, cf, df) ==
    LET r == FromRequest(c, tok, cf, df)
    IN  [outcome |-> r.outcome, identity |-> r.identity, cache |-> r.cache]

\* impl FromRequest for OptionalUser: Success with Some(user) for a Success
\* of the plain guard and Success with None for anything else.
OptionalFromRequest(c, tok, cf, df) ==
    LET r == FromRequest(c, tok, cf, df)
    IN  [outcome |-> "Success",
         identity |-> IF r.outcome = "Success" THEN r.identity ELSE None,
         cache |-> r.cache]

\* What the guard answers when the cache holds nothing for the token.
ColdResolve(tok, df) ==
    FromRequest([cache EXCEPT !.user_session = EmptyMap], tok, {}, df)

\* Every pattern of failures of the guard's commands and of its query.
GuardFaults == (SUBSET GuardCacheOps) \X (SUBSET GuardDbOps)


\* SessionCache::invalidate_user_sessions, its loop over the scanned keys:
\* GET each key and invalidate the session when it embeds user_id.
RECURSIVE InvalidateEach(_, _, _, _)
InvalidateEach(c, toks, user_id, cf) ==
    IF toks = {} THEN c
    ELSE LET t == CHOOSE x \in toks : TRUE
             got == RedisGet(c.user_session, t, "scan_get" \in cf)
             c1 == IF got.some /\ got.v.user.id = user_id
                   THEN InvalidateSession(c, got.v.session.session_token, cf)
                   ELSE c
         IN  InvalidateEach(c1, toks \ {t}, user_id, cf)

\* An invalidation that deletes nothing.
InvalidateUserSessions_Nothing(c, user_id, cf) == c

\* SessionCache::invalidate_user_sessions: KEYS user_session:*, then the loop.
InvalidateUserSessions(c, user_id, cf) ==
    InvalidateEach(c, RedisKeys(c.user_session, "keys" \in cf), user_id, cf)

\* SessionCache::cleanup_expired_sessions, its loop over the scanned keys:
\* GET each session_token:<token> key and invalidate the session when its
\* expires_at is before now.
RECURSIVE CleanupScanned(_, _, _)
CleanupScanned(c, toks, cf) ==
    IF toks = {} THEN c
    ELSE LET t == CHOOSE x \in toks : TRUE
             got == RedisGet(c.session_token, t, "scan_get" \in cf)
             c1 == IF got.some /\ got.v.expires_at < now
                   THEN InvalidateSession(c, got.v.session_token, cf)
                   ELSE c
         IN  CleanupScanned(c1, toks \ {t}, cf)

\* SessionCache::cleanup_expired_sessions: KEYS session_token:*, then the loop.
CacheCleanupExpiredSessions(c, cf) ==
    CleanupScanned(c, RedisKeys(c.session_token, "keys" \in cf), cf)

\* A count of the entries that are gone afterwards.
InvalidateUserSessionsCount_Removed(c, user_id, cf) ==
    Cardinality(DOMAIN c.user_session
                    \ DOMAIN InvalidateUserSessions(c, user_id, cf).user_session)

\* SessionCache::invalidate_user_sessions, the deleted_count it returns: one
\* for every scanned key whose GET returned a session of user_id, whatever
\* became of the DELs of invalidate_session.
InvalidateUserSessionsCount(c, user_id, cf) ==
    Cardinality({t \in RedisKeys(c.user_session, "keys" \in cf) :
                    LET got == RedisGet(c.user_session, t, "scan_get" \in cf)
                    IN  got.some /\ got.v.user.id = user_id})

\* The labels of the commands of invalidate_user_sessions.
ScanOps == {"keys", "scan_get"} \cup InvalidateOps

\* ------------------------------------------------------------ inputs
LoginNames == {"admin"}
Passwords == {"password", "wrong"}

\* The openids the code exchange can answer, and the session key it returns.
OpenIds == {"oWx0123456789"}
SessionKey == "sk"

\* The ways the code exchange can fail: the HTTP request fails (transport
\* error or timeout), the status is not 2xx, the body is not a
\* Code2SessionResponse, or the body carries a non-zero errcode.
ExchangeFailures == {"transport", "status", "body", "errcode"}
ExchangeAnswers == OpenIds \cup ExchangeFailures

\* An openid of another WeChat user of the same app: it differs from the
\* one above after its first eight characters.
OtherOpenId == "oWx01234abcde"
AllOpenIds == OpenIds \cup {OtherOpenId}

\* The text that the upstream side put into the failure.
UpstreamText(exch) ==
    CASE exch = "transport" -> "operation timed out"
      [] exch = "status" -> "502 Bad Gateway"
      [] exch = "body" -> "missing field openid"
      [] exch = "errcode" -> "40029: invalid code"
      [] OTHER -> ""

\* database::wx_auth::code2session: Ok with the openid, or Err with a text
\* that is built from the upstream failure.
Code2Session(exch) ==
    CASE exch = "transport" ->
            [some |-> FALSE, err |-> <<"HTTP request failed: ", UpstreamText(exch)>>]
      [] exch = "status" ->
            [some |-> FALSE, err |-> <<"WeChat API returned error: ", UpstreamText(exch)>>]
      [] exch = "body" ->
            [some |-> FALSE, err |-> <<"Failed to parse WeChat response: ", UpstreamText(exch)>>]
      [] exch = "errcode" ->
            [some |-> FALSE, err |-> <<"WeChat API error ", UpstreamText(exch)>>]
      [] OTHER -> [some |-> TRUE, v |-> [openid |-> exch, session_key |-> SessionKey]]

\* RouteCommand::alert(title, message) of handle_wx_login:
\* "登录失败" with "微信授权失败，请重试", "用户信息处理失败" or "会话创建失败".
AlertLoginFailed == "login failed"
AlertWxAuthFailed == "wx authorization failed, retry"
AlertUserFailed == "user processing failed"
AlertSessionFailed == "session creation failed"

\* The profile bundle of a WeChat request: absent (one of its four fields is
\* missing), one whose signature does not match its raw data, one whose
\* signature matches but whose ciphertext does not decrypt to a profile, one
\* that decrypts to a profile watermarked for another app, or one that
\* verifies and decrypts to DecryptedProfile watermarked for this app.
Bundles == {"none", "bad", "undecryptable", "foreign", "ok"}
DecryptedProfile == [nick_name |-> "Nick", avatar_url |-> "nick.png"]

\* The app id that process_encrypted_user_info expects in the watermark.
AppId == "wx2078fa60851884ca"

\* WxCrypto::verify_signature: SHA1(raw_data + session_key) against the
\* signature of the bundle; it answers Ok(bool), never Err.
VerifySignature(bundle) == bundle # "bad"

\* WxCrypto::decrypt_user_info: base64, AES-128-CBC, UTF-8 and JSON; each
\* failure is Err.  The plaintext carries the watermark of the app it was
\* issued for.
DecryptUserInfo(bundle) ==
    IF bundle = "undecryptable" THEN None
    ELSE Some([nick_name |-> DecryptedProfile.nick_name,
               avatar_url |-> DecryptedProfile.avatar_url,
               watermark |-> [appid |-> IF bundle = "foreign" THEN "wxOther"
                                        ELSE AppId]])

\* WxCrypto::verify_watermark: the embedded appid against the expected one.
VerifyWatermark(user_info, expected_appid) ==
    user_info.watermark.appid = expected_appid

\* WxCrypto::decrypt_user_profile: as decrypt_user_info, for the payload of
\* wx.getUserProfile, which is parsed without its watermark.
DecryptUserProfile(bundle) ==
    IF bundle = "undecryptable" THEN None ELSE Some(DecryptedProfile)

LoginCacheOps == {"get_failures", "incr", "expire", "set_user_session", "del_failures"}
LoginDbOps == {"auth1", "create1", "auth2", "create2"}
LogoutCacheOps == GuardCacheOps \cup {"inv_get", "inv_del_id", "inv_del_token", "inv_del_user_session"}
LogoutDbOps == GuardDbOps \cup {"delete_session"}
WxDbOps == {"find_user", "update_session", "create_user", "update_profile", "create_session"}
ProfileCacheOps == LogoutCacheOps \cup {"keys", "scan_get"}
ProfileDbOps == GuardDbOps \cup {"update_profile"}

\* The failure patterns of one request over its Redis commands cops and its
\* queries dops: nothing fails, one command or one query fails, Redis is
\* down, PostgreSQL is down, or both are.
FaultPatterns(cops, dops) ==
    {<<{}, {}>>, <<cops, {}>>, <<{}, dops>>, <<cops, dops>>}
        \cup {<<{c}, {}>> : c \in cops} \cup {<<{}, {d}>> : d \in dops}

\* The patterns still allowed once MaxFaults requests have met a failure.
Patterns(cops, dops) ==
    IF faults < MaxFaults THEN FaultPatterns(cops, dops) ELSE {<<{}, {}>>}

\* The failure patterns of a logout over its Redis commands: at most two
\* commands fail, or at most one succeeds.
LogoutCachePatterns ==
    {S \in SUBSET LogoutCacheOps :
        Cardinality(S) <= 2 \/ Cardinality(LogoutCacheOps \ S) <= 1}

\* The failure patterns of a federated login over its queries: no query
\* fails, one query fails, or PostgreSQL is down.
WxDbPatterns == {f[2] : f \in FaultPatterns({}, WxDbOps)}

\* One more request is counted when a command or query of it fails.
Charge(cf, df) == faults' = faults + (IF cf \cup df = {} THEN 0 ELSE 1)

NoHist == [failed |-> 0, clean |-> TRUE, since |-> 0]

\* ------------------------------------------------------------ actions
\* Arc<Mutex<Client>> with nobody holding the guard and nobody waiting, and
\* the query the connection ran last (none yet).
IdlePool == [holders |-> {}, waiting |-> <<>>, last |-> <<0, "none">>]

\* No request is in flight: where the handlers run one at a time, each
\* request has returned before the next one starts.
NoRequests == <<>>

\* The state after the server has started: the two accounts that
\* init_auth_tables seeds, no session, an empty Redis.
SeedUsers ==
    (1 :> [username |-> "admin", password |-> "password",
           full_name |-> "Administrator", avatar_url |-> Null,
           is_active |-> TRUE, is_admin |-> TRUE, is_guest |-> FALSE,
           wx_openid |-> Null, wx_session_key |-> Null])
    @@ (2 :> [username |-> "test", password |-> "password",
              full_name |-> "Tester", avatar_url |-> Null,
              is_active |-> TRUE, is_admin |-> FALSE, is_guest |-> FALSE,
              wx_openid |-> Null, wx_session_key |-> Null])

Init ==
    /\ now = 0
    /\ users = SeedUsers
    /\ sessions = {}
    /\ tokenCount = 0
    /\ cache = [user_session |-> EmptyMap, session_token |-> EmptyMap,
                session |-> EmptyMap, session_access |-> EmptyMap,
                login_failures |-> EmptyMap]
    /\ hist = [u \in LoginNames |-> NoHist]
    /\ loggedOut = EmptyMap
    /\ faults = 0
    /\ pool = IdlePool
    /\ req = NoRequests

\* GET /api/auth/current: a request that only runs the guard.
Resolve(tok, cf, df) ==
    /\ Charge(cf, df)
    /\ cache' = FromRequest(cache, tok, cf, df).cache
    /\ UNCHANGED <<now, users, sessions, tokenCount, hist, loggedOut, pool, req>>

\* AuthUseCase::execute_login, as far as handle_login's command depends on
\* it: the credential check, then the session row of the use case.
\* The result is the command and the rows and tokens afterwards.
ExecuteLogin(username, password, df) ==
    IF "auth1" \in df
    THEN [command |-> "db_error", sessions |-> sessions, tokens |-> tokenCount]
    ELSE LET a == AuthenticateUser(username, password)
         IN  IF ~a.some
             THEN [command |-> "invalid_credentials", sessions |-> sessions,
                   tokens |-> tokenCount]
             ELSE IF "create1" \in df
             THEN [command |-> "session_error", sessions |-> sessions,
                   tokens |-> tokenCount]
             ELSE [command |-> "sequence",
                   sessions |-> sessions \cup {NewSession(a.v.id, tokenCount + 1)},
                   tokens |-> tokenCount + 1]

\* The text of a tokio_postgres::Error (e.to_string()), which names what
\* went wrong inside the server.
DbErrorText == "error connecting to server: Connection refused"

\* impl Display for UseCaseError: the prefix of the variant, then its text.
UseCaseErrorText(variant, msg) ==
    CASE variant = "DatabaseError" -> <<"Database error: ", msg>>
      [] variant = "AuthenticationError" -> <<"Authentication error: ", msg>>
      [] variant = "InternalError" -> <<"Internal error: ", msg>>

\* The error that execute_login returns for each of its failures:
\* DatabaseError(e.to_string()), AuthenticationError("用户名或密码错误"),
\* InternalError("会话创建失败").
LoginError(command) ==
    CASE command = "db_error" -> [variant |-> "DatabaseError", msg |-> DbErrorText]
      [] command = "invalid_credentials" ->
            [variant |-> "AuthenticationError", msg |-> "wrong username or password"]
      [] command = "session_error" ->
            [variant |-> "InternalError", msg |-> "session creation failed"]

\* handle_login's error_code for a variant of UseCaseError.
ErrorCode(variant) ==
    CASE variant = "AuthenticationError" -> "AUTH_INVALID_CREDENTIALS"
      [] variant = "DatabaseError" -> "DATABASE_ERROR"
      [] OTHER -> Null

\* RouteCommandGenerator::generate_error_route_command: the title and the
\* message of the alert.  A code without an arm of its own takes the last
\* arm, whose message is the error_message it was given.
GenerateErrorRouteCommand(error_message, error_code) ==
    CASE error_code = "AUTH_INVALID_CREDENTIALS" ->
            <<"login failed", "wrong username or password, enter again">>
      [] error_code = "AUTH_ACCOUNT_LOCKED" ->
            <<"account locked", "your account is locked, contact the administrator">>
      [] error_code = "NETWORK_ERROR" ->
            <<"network error", "network connection failed, check the settings">>
      [] error_code = "SERVER_MAINTENANCE" ->
            <<"maintenance", "the system is under maintenance, retry later">>
      [] OTHER -> <<"operation failed">> \o error_message

\* AuthUseCase::handle_login for a failed execute_login: the alert that the
\* login route returns to the client in ApiResponse::command_only.
HandleLoginAlert(username, password, df) ==
    LET e == LoginError(ExecuteLogin(username, password, df).command)
    IN  GenerateErrorRouteCommand(UseCaseErrorText(e.variant, e.msg),
                                  ErrorCode(e.variant))

\* routes::auth::login, after the lock check: the use case, then for the
\* success command the second credential check, the session of the response
\* and the cache writes, and for any other command the failure record.
LoginBody(username, password, cf, df) ==
    LET e == ExecuteLogin(username, password, df)
        a == IF "auth2" \in df THEN None ELSE AuthenticateUser(username, password)
    IN  IF e.command = "sequence"
        THEN IF a.some /\ "create2" \notin df
             THEN LET s == NewSession(a.v.id, e.tokens + 1)
                      c1 == CacheUserSession(cache, a.v, s, "set_user_session" \in cf)
                  IN  [outcome |-> "success", token |-> s.session_token,
                       sessions |-> e.sessions \cup {s}, tokens |-> e.tokens + 1,
                       cache |-> ClearLoginFailures(c1, username, "del_failures" \in cf),
                       verified |-> 2, count |-> None,
                       cerr |-> {"set_user_session", "del_failures"} \cap cf]
             ELSE [outcome |-> "success_no_session", token |-> NoToken,
                   sessions |-> e.sessions, tokens |-> e.tokens, cache |-> cache,
                   verified |-> 2, count |-> None, cerr |-> {}]
        ELSE LET r == RecordLoginFailure(cache, username, cf)
             IN  [outcome |-> e.command, token |-> NoToken,
                  sessions |-> e.sessions, tokens |-> e.tokens, cache |-> r.cache,
                  verified |-> 1, count |-> r.count,
                  cerr |-> IF "incr" \in cf THEN {"incr"} ELSE {"expire"} \cap cf]

\* The streak of failed logins of a username after one more attempt:
\* failed counts the consecutive rejected attempts since `since`, and clean
\* says that every Redis command of each of them succeeded.
HistAfter(h, b) ==
    IF b.outcome \in {"success", "success_no_session"}
    THEN NoHist
    ELSE [failed |-> h.failed + 1,
          clean |-> (h.failed = 0 \/ h.clean) /\ b.cerr = {},
          since |-> IF h.failed = 0 THEN now ELSE h.since]

\* A login that verifies the credentials before it looks at the lock.
LoginResult_VerifyFirst(username, password, cf, df) ==
    LET getErr == {"get_failures"} \cap cf
        b == LoginBody(username, password, cf, df)
        is_locked == IsAccountLocked(b.cache, username, MAX_ATTEMPTS, "get_failures" \in cf)
    IN  IF is_locked.some /\ is_locked.v
        THEN [b EXCEPT !.outcome = "locked", !.token = NoToken, !.cerr = getErr \cup @]
        ELSE [b EXCEPT !.cerr = getErr \cup @]

\* routes::auth::login: the lock check (a failing GET reads as 0 failures),
\* then the body.  The result is the response (outcome, token, the number
\* of credential checks made, the count record_login_failure returned, the
\* Redis commands that failed) and the rows, tokens and cache afterwards.
LoginResult(username, password, cf, df) ==
    LET getErr == {"get_failures"} \cap cf
        b == LoginBody(username, password, cf, df)
        is_locked == IsAccountLocked(cache, username, MAX_ATTEMPTS, "get_failures" \in cf)
    IN  IF is_locked.some /\ is_locked.v
        THEN [outcome |-> "locked", token |-> NoToken, sessions |-> sessions,
              tokens |-> tokenCount, cache |-> cache, verified |-> 0,
              count |-> None, cerr |-> getErr]
        ELSE [b EXCEPT !.cerr = getErr \cup @]

\* POST /api/auth/login
Login(username, password, cf, df) ==
    LET r == LoginResult(username, password, cf, df)
    IN  /\ Charge(cf, df)
        /\ r.tokens <= MaxTokens
        /\ r.outcome # "locked" =>
                /\ hist[username].failed < MaxCount
                /\ GetLoginFailures(r.cache, username, FALSE).v <= MaxCount
        /\ sessions' = r.sessions
        /\ tokenCount' = r.tokens
        /\ cache' = r.cache
        /\ hist' = IF r.outcome = "locked" THEN hist
                   ELSE [hist EXCEPT ![username] = HistAfter(@, r)]
        /\ UNCHANGED <<now, users, loggedOut, pool, req>>

\* A logout that deletes the row only after a cache invalidation without failure.
LogoutResult_CacheFirst(g, cf, df) ==
    LET t == g.identity.v.session.session_token
        destroyed == "delete_session" \notin df /\ cf = {}
    IN  [outcome |-> IF destroyed THEN "logged_out" ELSE "cache_error",
         token |-> t, destroyed |-> destroyed,
         sessions |-> IF destroyed THEN LogoutSession(t) ELSE sessions,
         cache |-> InvalidateSession(g.cache, t, cf)]

\* routes::auth::logout after a successful guard g: handle_logout (the row
\* delete, whose failure is logged only), then invalidate_session.
LogoutResult(g, cf, df) ==
    LET t == g.identity.v.session.session_token
        destroyed == "delete_session" \notin df
    IN  [outcome |-> "logged_out", token |-> t, destroyed |-> destroyed,
         sessions |-> IF destroyed THEN LogoutSession(t) ELSE sessions,
         cache |-> InvalidateSession(g.cache, t, cf)]

\* POST /api/auth/logout: the guard, then the handler.
Logout(tok, cf, df) ==
    LET g == FromRequest(cache, tok, cf, df)
        r == LogoutResult(g, cf, df)
    IN  /\ Charge(cf, df)
        /\ g.outcome = "Success"
        /\ sessions' = r.sessions
        /\ cache' = r.cache
        /\ loggedOut' = (r.token :> IF r.destroyed /\ "inv_del_user_session" \notin cf
                                    THEN "clean" ELSE "faulty") @@ loggedOut
        /\ UNCHANGED <<now, users, tokenCount, hist, pool, req>>

\* database::wx_auth::create_wx_user: the row inserted for a new openid.
NewWxUser(openid) ==
    [username |-> "wx_" \o SubSeq(openid, 1, 8), password |-> "",
     full_name |-> Null, avatar_url |-> Null,
     is_active |-> TRUE, is_admin |-> FALSE, is_guest |-> TRUE,
     wx_openid |-> openid, wx_session_key |-> SessionKey]

\* database::wx_auth::update_wx_user_profile:
\*   UPDATE users SET full_name = $1, avatar_url = $2 WHERE id = $3
UpdateWxUserProfile(us, id, full_name, avatar_url) ==
    [us EXCEPT ![id].full_name = full_name, ![id].avatar_url = avatar_url]

\* The UNIQUE constraints of the users table that an INSERT must satisfy:
\* username, and wx_openid where it is not NULL (email is derived from the
\* same prefix of the openid as the username and is not kept in the model).
CanInsertUser(us, row) ==
    \A i \in DOMAIN us :
        /\ us[i].username # row.username
        /\ row.wx_openid # Null => us[i].wx_openid # row.wx_openid

\* WxAuthUseCase::find_or_create_wx_user: the user of the openid and the
\* users table afterwards; a failing update of the session key is logged only.
FindOrCreateWxUser(openid, df) ==
    LET found == {id \in DOMAIN users : users[id].wx_openid = openid}
        id == IF found # {} THEN CHOOSE i \in found : TRUE
              ELSE Cardinality(DOMAIN users) + 1
    IN  IF "find_user" \in df THEN [ok |-> FALSE, users |-> users, id |-> 0]
        ELSE IF found # {}
        THEN [ok |-> TRUE, id |-> id,
              users |-> IF "update_session" \in df THEN users
                        ELSE [users EXCEPT ![id].wx_session_key = SessionKey]]
        ELSE IF "create_user" \in df \/ ~CanInsertUser(users, NewWxUser(openid))
        THEN [ok |-> FALSE, users |-> users, id |-> 0]
        ELSE [ok |-> TRUE, id |-> id, users |-> (id :> NewWxUser(openid)) @@ users]

\* process_encrypted_user_info, had it gone on after a signature mismatch.
ProcessEncryptedUserInfo_Unverified(us, id, bundle, df) ==
    LET decrypted_user_info == DecryptUserInfo(bundle)
        all == <<"verify_signature", "decrypt_user_info",
                 "verify_watermark", "update_wx_user_profile">>
    IN  IF ~decrypted_user_info.some \/ "update_profile" \in df
        THEN [ok |-> FALSE, users |-> us, stages |-> SubSeq(all, 1, 2),
              warned |-> FALSE]
        ELSE [ok |-> TRUE,
              users |-> UpdateWxUserProfile(us, id, decrypted_user_info.v.nick_name,
                                            decrypted_user_info.v.avatar_url),
              stages |-> all,
              warned |-> ~VerifyWatermark(decrypted_user_info.v, AppId)]

\* process_encrypted_user_info, had a watermark mismatch been an error.
ProcessEncryptedUserInfo_HardWatermark(us, id, bundle, df) ==
    LET decrypted_user_info == DecryptUserInfo(bundle)
        all == <<"verify_signature", "decrypt_user_info",
                 "verify_watermark", "update_wx_user_profile">>
        done(ok, t, st, w) == [ok |-> ok, users |-> t, stages |-> st, warned |-> w]
    IN  IF ~VerifySignature(bundle) THEN done(FALSE, us, SubSeq(all, 1, 1), FALSE)
        ELSE IF ~decrypted_user_info.some THEN done(FALSE, us, SubSeq(all, 1, 2), FALSE)
        ELSE IF ~VerifyWatermark(decrypted_user_info.v, AppId)
        THEN done(FALSE, us, SubSeq(all, 1, 3), TRUE)
        ELSE IF "update_profile" \in df THEN done(FALSE, us, all, FALSE)
        ELSE done(TRUE,
                  UpdateWxUserProfile(us, id, decrypted_user_info.v.nick_name,
                                      decrypted_user_info.v.avatar_url),
                  all, FALSE)

\* WxAuthUseCase::process_encrypted_user_info: its result, the users table
\* afterwards and the stages it called, in the order of the calls.  A
\* signature mismatch and a decryption error return Err at once; a watermark
\* mismatch is only warned about (warned); a failing UPDATE returns Err.
ProcessEncryptedUserInfo(us, id, bundle, df) ==
    LET decrypted_user_info == DecryptUserInfo(bundle)
        done(ok, t, st, w) == [ok |-> ok, users |-> t, stages |-> st, warned |-> w]
        all == <<"verify_signature", "decrypt_user_info",
                 "verify_watermark", "update_wx_user_profile">>
    IN  IF ~VerifySignature(bundle)
        THEN done(FALSE, us, SubSeq(all, 1, 1), FALSE)
        ELSE IF ~decrypted_user_info.some
        THEN done(FALSE, us, SubSeq(all, 1, 2), FALSE)
        ELSE IF "update_profile" \in df
        THEN done(FALSE, us, all, ~VerifyWatermark(decrypted_user_info.v, AppId))
        ELSE done(TRUE,
                  UpdateWxUserProfile(us, id, decrypted_user_info.v.nick_name,
                                      decrypted_user_info.v.avatar_url),
                  all, ~VerifyWatermark(decrypted_user_info.v, AppId))

\* handle_wx_login, had it returned the enrichment's error to its caller.
WxLoginResult_Abort(exch, bundle, df) ==
    LET u == FindOrCreateWxUser(exch, df)
        e == ProcessEncryptedUserInfo(u.users, u.id, bundle, df)
        failed(o, t) == [outcome |-> o, token |-> NoToken, users |-> t,
                         sessions |-> sessions, tokens |-> tokenCount]
    IN  IF ~Code2Session(exch).some THEN failed("wx_api_failed", users)
        ELSE IF ~u.ok THEN failed("user_failed", users)
        ELSE IF bundle # "none" /\ ~e.ok THEN failed("enrichment_failed", e.users)
        ELSE IF "create_session" \in df THEN failed("session_failed", e.users)
        ELSE [outcome |-> "success", token |-> tokenCount + 1,
              users |-> IF bundle = "none" THEN u.users ELSE e.users,
              sessions |-> sessions \cup {NewSession(u.id, tokenCount + 1)},
              tokens |-> tokenCount + 1]

\* handle_wx_login, had it put the error of the code exchange into the alert.
WxLoginResult_Leak(exch, bundle, df) ==
    LET wx_response == Code2Session(exch)
        u == FindOrCreateWxUser(exch, df)
        us == IF bundle = "none" THEN u.users
              ELSE ProcessEncryptedUserInfo(u.users, u.id, bundle, df).users
        failed(o, t, m) == [outcome |-> o, token |-> NoToken, users |-> t,
                            sessions |-> sessions, tokens |-> tokenCount,
                            alert |-> <<AlertLoginFailed>> \o m]
    IN  IF ~wx_response.some THEN failed("wx_api_failed", users, wx_response.err)
        ELSE IF ~u.ok THEN failed("user_failed", users, <<AlertUserFailed>>)
        ELSE IF "create_session" \in df
        THEN failed("session_failed", us, <<AlertSessionFailed>>)
        ELSE [outcome |-> "success", token |-> tokenCount + 1, users |-> us,
              sessions |-> sessions \cup {NewSession(u.id, tokenCount + 1)},
              tokens |-> tokenCount + 1, alert |-> <<>>]

\* WxAuthUseCase::handle_wx_login: the code exchange (its answer is the
\* input exch), the user of the openid, the optional enrichment, the
\* session.  The result is the response and the tables afterwards.
WxLoginResult(exch, bundle, df) ==
    LET wx_response == Code2Session(exch)
        u == FindOrCreateWxUser(exch, df)
        us == IF bundle = "none" THEN u.users
              ELSE ProcessEncryptedUserInfo(u.users, u.id, bundle, df).users
        failed(o, t, m) == [outcome |-> o, token |-> NoToken, users |-> t,
                            sessions |-> sessions, tokens |-> tokenCount,
                            alert |-> <<AlertLoginFailed, m>>]
    IN  IF ~wx_response.some THEN failed("wx_api_failed", users, AlertWxAuthFailed)
        ELSE IF ~u.ok THEN failed("user_failed", users, AlertUserFailed)
        ELSE IF "create_session" \in df THEN failed("session_failed", us, AlertSessionFailed)
        ELSE [outcome |-> "success", token |-> tokenCount + 1, users |-> us,
              sessions |-> sessions \cup {NewSession(u.id, tokenCount + 1)},
              tokens |-> tokenCount + 1, alert |-> <<>>]

\* The requests of a federated login: a code that exchanges to an openid,
\* with every kind of bundle, and a code whose exchange fails in one of the
\* four ways (the bundle of such a request is never looked at).
WxInputs == (OpenIds \X Bundles) \cup (ExchangeFailures \X {"none"})

\* POST /api/auth/wx-login: the use case; the route writes nothing to Redis.
WxLogin(exch, bundle, df) ==
    LET r == WxLoginResult(exch, bundle, df)
    IN  /\ Charge({}, df)
        /\ r.tokens <= MaxTokens
        /\ users' = r.users
        /\ sessions' = r.sessions
        /\ tokenCount' = r.tokens
        /\ UNCHANGED <<now, cache, hist, loggedOut, pool, req>>

\* The wx_session_key of the guard's user: a User built by the queries of
\* database::auth or read back from a CachedUser carries none.
WxSessionKeyOf(user) ==
    IF "wx_session_key" \in DOMAIN user THEN user.wx_session_key ELSE Null

\* routes::auth::process_user_profile_update: a missing field, a signature
\* mismatch and a decryption error return Err at once; the watermark is not
\* looked at; a failing UPDATE returns Err.
ProcessUserProfileUpdate(us, id, bundle, df) ==
    LET profile_info == DecryptUserProfile(bundle)
        done(ok, t, st) == [ok |-> ok, users |-> t, stages |-> st]
    IN  IF bundle = "none" THEN done(FALSE, us, <<>>)
        ELSE IF ~VerifySignature(bundle)
        THEN done(FALSE, us, <<"verify_signature">>)
        ELSE IF ~profile_info.some
        THEN done(FALSE, us, <<"verify_signature", "decrypt_user_profile">>)
        ELSE IF "update_profile" \in df
        THEN done(FALSE, us, <<"verify_signature", "decrypt_user_profile",
                               "update_wx_user_profile">>)
        ELSE done(TRUE,
                  UpdateWxUserProfile(us, id, profile_info.v.nick_name,
                                      profile_info.v.avatar_url),
                  <<"verify_signature", "decrypt_user_profile",
                    "update_wx_user_profile">>)

\* routes::auth::update_user_profile after a successful guard g: the
\* wx_session_key check, process_user_profile_update, then
\* invalidate_user_sessions.
UpdateUserProfileResult(g, bundle, cf, df) ==
    LET user == g.identity.v.user
        r == ProcessUserProfileUpdate(users, user.id, bundle, df)
    IN  IF WxSessionKeyOf(user) = Null
        THEN [outcome |-> "not_wx_user", users |-> users, cache |-> g.cache]
        ELSE IF ~r.ok
        THEN [outcome |-> "update_failed", users |-> users, cache |-> g.cache]
        ELSE [outcome |-> "updated", users |-> r.users,
              cache |-> InvalidateUserSessions(g.cache, user.id, cf)]

\* POST /api/auth/update-profile: the guard, then the handler.
UpdateUserProfile(tok, bundle, cf, df) ==
    LET g == FromRequest(cache, tok, cf, df)
        r == UpdateUserProfileResult(g, bundle, cf, df)
    IN  /\ Charge(cf, df)
        /\ g.outcome = "Success"
        /\ users' = r.users
        /\ cache' = r.cache
        /\ UNCHANGED <<now, sessions, tokenCount, hist, loggedOut, pool, req>>

\* The batch sweep: cleanup_expired_sessions runs; when its DELETE fails
\* (fail) it returns Err and no row is deleted.
Sweep(fail) ==
    /\ Charge({}, IF fail THEN {"cleanup"} ELSE {})
    /\ sessions' = IF fail THEN sessions ELSE CleanupExpiredSessions(sessions)
    /\ UNCHANGED <<now, users, tokenCount, cache, hist, loggedOut, pool, req>>

\* The streak of a username once the clock shows t: failed logins that
\* began LOGIN_ATTEMPTS ago are no longer "within 15 minutes".
HistAt(h, t) ==
    IF h.failed > 0 /\ t >= h.since + LOGIN_ATTEMPTS THEN NoHist ELSE h

\* Time passes: Redis drops the keys whose time to live has run out, and a
\* streak of failed logins older than the window is over.
Tick ==
    /\ now < MaxTime
    /\ now' = now + 1
    /\ cache' = [k \in DOMAIN cache |-> Unexpired(cache[k], now + 1)]
    /\ hist' = [u \in LoginNames |-> HistAt(hist[u], now + 1)]
    /\ UNCHANGED <<users, sessions, tokenCount, loggedOut, faults, pool, req>>

\* The requests that arrive one at a time.  A request that is turned away
\* before its first command or query (no credential or an unknown one, a
\* code that does not exchange) is taken without failures.  A bundle that
\* is not applied leaves the users as no bundle does, so the federated
\* login is taken with no bundle and with a complete one.  The profile
\* update returns at its wx_session_key check and leaves what its guard
\* leaves, so its failures are those of Resolve and it is taken without.
Next ==
    \/ \E tok \in Presented, f \in Patterns(GuardCacheOps, GuardDbOps) :
            /\ tok \notin 1..tokenCount => f = <<{}, {}>>
            /\ Resolve(tok, f[1], f[2])
    \/ \E u \in LoginNames, p \in Passwords, f \in Patterns(LoginCacheOps, LoginDbOps) :
            Login(u, p, f[1], f[2])
    \/ \E tok \in Presented, f \in Patterns(LogoutCacheOps, LogoutDbOps) :
            Logout(tok, f[1], f[2])
    \/ \E in \in WxInputs, f \in Patterns({}, WxDbOps) :
            /\ in[1] \in ExchangeFailures => f[2] = {}
            /\ in[2] \in {"none", "ok"}
            /\ WxLogin(in[1], in[2], f[2])
    \/ \E tok \in 1..tokenCount :
            UpdateUserProfile(tok, "ok", {}, {})
    \/ \E f \in Patterns({}, {"cleanup"}) : Sweep(f[2] # {})
    \/ Tick

Spec == Init /\ [][Next]_vars

\* ------------------------------------------------------------ properties
\* The failure patterns a login is examined under.
LoginFaults == FaultPatterns(LoginCacheOps, LoginDbOps)

\* C1: the guard answers Success for a token only if a session row with
\* that token has now < expires_at and its user is active, on the cache
\* path as on the database path, whatever commands fail.
C1_SuccessOnlyForValidSession ==
    \A tok \in Presented, f \in GuardFaults :
        FromRequest(cache, tok, f[1], f[2]).outcome = "Success"
            => \E s \in sessions : /\ s.session_token = tok
                                   /\ now < s.expires_at
                                   /\ users[s.user_id].is_active

C3_CacheAgreesWithStore ==
    \A tok \in 1..tokenCount :
        LET hot == FromRequest(cache, tok, {}, {})
            cold == ColdResolve(tok, {})
        IN  (hot.path = "cache" /\ cold.outcome = "Success") =>
                /\ hot.outcome = "Success"
                /\ hot.identity.v.user.id = cold.identity.v.user.id
                /\ hot.identity.v.user.is_admin = cold.identity.v.user.is_admin

\* An administrator's valid token resolves from the cache.
C3_Witness ==
    \E tok \in 1..tokenCount :
        /\ FromRequest(cache, tok, {}, {}).path = "cache"
        /\ ColdResolve(tok, {}).outcome = "Success"
        /\ ColdResolve(tok, {}).identity.v.user.is_admin

\* C4: no cached identity the guard can read differs from PostgreSQL in the
\* profile (name, avatar), the activation or the admin flag of its user, or
\* belongs to a session whose row has been deleted.
C4_NoStaleIdentity ==
    \A tok \in DOMAIN cache.user_session :
        LET cu == cache.user_session[tok].v.user
        IN  /\ cu.full_name = users[cu.id].full_name
            /\ cu.avatar_url = users[cu.id].avatar_url
            /\ cu.is_active = users[cu.id].is_active
            /\ cu.is_admin = users[cu.id].is_admin
            /\ \E s \in sessions : s.session_token = tok

\* C5: with a token and no identity from the cache, a failing query gives
\* DatabaseError; Invalid is given only when the query answered and found no
\* unexpired session of an active user under the token.
C5_StoreFailureIsDatabaseError ==
    \A tok \in Presented \ {NoToken}, f \in GuardFaults :
        LET r == FromRequest(cache, tok, f[1], f[2])
            hit == RedisGet(cache.user_session, tok, "get_user_session" \in f[1]).some
        IN  /\ (~hit /\ "validate_session" \in f[2]) => r.outcome = "DatabaseError"
            /\ r.outcome = "Invalid" =>
                    /\ "validate_session" \notin f[2]
                    /\ ~\E s \in sessions : /\ s.session_token = tok
                                             /\ now < s.expires_at
                                             /\ users[s.user_id].is_active

\* A valid session is not in the cache, so the failing query decides.
C5_Witness ==
    \E tok \in 1..tokenCount :
        /\ ~RedisGet(cache.user_session, tok, FALSE).some
        /\ ValidateSession(tok).some
        /\ FromRequest(cache, tok, {}, {"validate_session"}).outcome = "DatabaseError"
        /\ faults > 0

\* C6 as stated: whenever a Redis command of the guard fails, the outcome
\* is the outcome of a cold-cache resolve.
C6_CacheFailureIsMiss ==
    \A tok \in Presented, f \in GuardFaults :
        f[1] # {} =>
            FromRequest(cache, tok, f[1], f[2]).outcome = ColdResolve(tok, f[2]).outcome

\* C6: a failing lookup is a miss (outcome and identity are those of a
\* cold-cache resolve); a failing marker write or re-population write changes
\* neither outcome nor identity; the outcome is never a cache error.
C6_CacheFailureAbsorbed ==
    \A tok \in Presented, f \in GuardFaults :
        LET r == FromRequest(cache, tok, f[1], f[2])
            same == FromRequest(cache, tok, f[1] \cap {"get_user_session"}, f[2])
            cold == ColdResolve(tok, f[2])
        IN  /\ r.outcome \in {"Success", "Missing", "Invalid", "DatabaseError"}
            /\ r.outcome = same.outcome /\ r.identity = same.identity
            /\ "get_user_session" \in f[1] =>
                    r.outcome = cold.outcome /\ r.identity = cold.identity

\* A cached token whose lookup fails is answered from PostgreSQL.
C6_Witness ==
    \E tok \in 1..tokenCount :
        /\ RedisGet(cache.user_session, tok, FALSE).some
        /\ FromRequest(cache, tok, {"get_user_session"}, {}).path = "db"
        /\ FromRequest(cache, tok, {"get_user_session"}, {}).outcome = "Success"
        /\ faults > 0

C8_LockShortCircuits ==
    \A u \in LoginNames, p \in Passwords, f \in LoginFaults :
        LET r == LoginResult(u, p, f[1], f[2])
        IN  IsAccountLocked(cache, u, MAX_ATTEMPTS, "get_failures" \in f[1]) = Some(TRUE) =>
                /\ r.outcome = "locked"
                /\ r.verified = 0
                /\ r.sessions = sessions /\ r.tokens = tokenCount
                /\ r.cache = cache

\* A locked username presents the correct password and nothing is verified.
C8_Witness ==
    \E u \in LoginNames :
        /\ IsAccountLocked(cache, u, MAX_ATTEMPTS, FALSE) = Some(TRUE)
        /\ AuthenticateUser(u, "password").some
        /\ LoginResult(u, "password", {}, {}).verified = 0

C10_FailureRenewsTtl ==
    \A u \in LoginNames, cf \in SUBSET {"incr", "expire"} :
        LET r == RecordLoginFailure(cache, u, cf)
        IN  r.count.some =>
                /\ r.cache.login_failures[u].exp = now + LOGIN_ATTEMPTS
                /\ u \notin DOMAIN cache.login_failures => r.count.v = 1

C12_AllDeletionsAttempted ==
    \A s \in sessions, op \in InvalidateOps :
        LET c == CacheSession(CacheUserSession(cache, UserOf(s.user_id), s, FALSE), s, {})
            after == InvalidateSession(c, s.session_token, {op})
        IN  /\ {"inv_del_id", "inv_del_token", "inv_del_user_session"}
                    \subseteq InvalidateSessionIssued(c, s.session_token, {op})
            /\ op # "inv_del_id" => ~RedisGet(after.session, s.id, FALSE).some
            /\ op # "inv_del_token" =>
                    ~RedisGet(after.session_token, s.session_token, FALSE).some
            /\ op # "inv_del_user_session" =>
                    ~RedisGet(after.user_session, s.session_token, FALSE).some

\* C13: for a token whose session PostgreSQL holds valid, and with the
\* queries succeeding, a logout passes the guard, deletes the row of the
\* token and answers logged out whichever Redis commands fail (none, one,
\* two, all but one, all).
C13_LogoutNotBlockedByCache ==
    \A tok \in 1..tokenCount, cf \in LogoutCachePatterns :
        ValidateSession(tok).some =>
            LET g == FromRequest(cache, tok, cf, {})
                r == LogoutResult(g, cf, {})
            IN  /\ g.outcome = "Success"
                /\ r.outcome = "logged_out" /\ r.destroyed
                /\ r.token = tok
                /\ ~\E s \in r.sessions : s.session_token = tok

\* A cached valid session is logged out while every Redis command fails.
C13_Witness ==
    \E tok \in 1..tokenCount :
        /\ ValidateSession(tok).some
        /\ RedisGet(cache.user_session, tok, FALSE).some
        /\ LogoutResult(FromRequest(cache, tok, LogoutCacheOps, {}),
                        LogoutCacheOps, {}).destroyed
        /\ RedisGet(LogoutResult(FromRequest(cache, tok, LogoutCacheOps, {}),
                                 LogoutCacheOps, {}).cache.user_session, tok, FALSE).some

\* ------------------------------------------------ invalidate_user_sessions
\* The function on the caches it can meet: each of the tokens 1..MaxScan is
\* either not cached or cached, by the guard, for a session of one of the
\* two seeded accounts.
ScanUsers == DOMAIN SeedUsers

InitScan ==
    /\ now = 0
    /\ users = SeedUsers
    /\ tokenCount = MaxScan
    /\ \E owner \in [1..MaxScan -> {0} \cup ScanUsers] :
            /\ sessions = {NewSession(owner[n], n) : n \in {t \in 1..MaxScan : owner[t] # 0}}
            /\ cache = [user_session |->
                            [t \in {n \in 1..MaxScan : owner[n] # 0} |->
                                [v |-> [user |-> CachedUserOf(UserOf(owner[t])),
                                        session |-> NewSession(owner[t], t)],
                                 exp |-> now + USER_SESSION]],
                        session_token |-> EmptyMap, session |-> EmptyMap,
                        session_access |-> EmptyMap, login_failures |-> EmptyMap]
    /\ hist = [u \in LoginNames |-> NoHist]
    /\ loggedOut = EmptyMap
    /\ faults = 0
    /\ pool = IdlePool
    /\ req = NoRequests

\* invalidate_user_sessions(user_id) is called while the commands cf fail.
InvalidateAll(user_id, cf) ==
    /\ cache' = InvalidateUserSessions(cache, user_id, cf)
    /\ UNCHANGED <<now, users, sessions, tokenCount, hist, loggedOut, faults, pool, req>>

NextScan == \E user_id \in ScanUsers, cf \in SUBSET ScanOps : InvalidateAll(user_id, cf)

SpecScan == InitScan /\ [][NextScan]_vars


\* ------------------------------------------------ DbPool under concurrency
\* Requests that run concurrently on the one connection.  Each request is a
\* sequence of database functions; each function takes the Mutex
\* (pool.lock().await), runs its queries on the Client and drops the guard
\* when it returns.
Requests == 1..NumRequests

\* The database functions a request calls, in order, when the cache does not
\* answer: the guard alone, the guard and logout_session, the use case and
\* the route of a login, a federated login of a known user with a bundle.
Kinds == {"resolve", "logout", "login", "wx_login"}

Scopes(kind) ==
    CASE kind = "resolve" -> <<"validate_session">>
      [] kind = "logout" -> <<"validate_session", "logout_session">>
      [] kind = "login" -> <<"authenticate_user", "create_user_session",
                             "update_last_login", "authenticate_user",
                             "create_user_session", "log_login_attempt">>
      [] kind = "wx_login" -> <<"find_user_by_openid", "update_wx_user_session",
                                "update_wx_user_profile", "create_user_session">>

\* The token that the resolve and logout requests present.
SharedToken == 1

\* The queries one database function runs under its guard: validate_session
\* runs its UPDATE only when its SELECT found a row.
Queries(fn, found) ==
    IF fn = "validate_session"
    THEN IF found THEN <<"select_session", "update_last_accessed">>
         ELSE <<"select_session">>
    ELSE <<fn>>

\* tokio::sync::Mutex::lock: the request joins the queue of waiters.
Acquire(r) ==
    /\ req[r].at = "idle"
    /\ req[r].scope <= Len(Scopes(req[r].kind))
    /\ pool' = [pool EXCEPT !.waiting = Append(@, r)]
    /\ req' = [req EXCEPT ![r].at = "waiting"]
    /\ UNCHANGED <<now, users, sessions, tokenCount, cache, hist, loggedOut, faults>>

\* A Mutex that hands the guard to any waiter, held or not.
Grant_NoExclusion(r) ==
    /\ req[r].at = "waiting"
    /\ pool' = [pool EXCEPT !.holders = @ \cup {r},
                            !.waiting = SelectSeq(@, LAMBDA w : w # r)]
    /\ req' = [req EXCEPT ![r].at = "holding", ![r].done = 0, ![r].found = FALSE]
    /\ UNCHANGED <<now, users, sessions, tokenCount, cache, hist, loggedOut, faults>>

\* The Mutex hands the guard to the first waiter once nobody holds it (the
\* semaphore of tokio's Mutex is fair: first in, first out).
Grant(r) ==
    /\ req[r].at = "waiting"
    /\ pool.holders = {}
    /\ Head(pool.waiting) = r
    /\ pool' = [pool EXCEPT !.holders = {r}, !.waiting = Tail(@)]
    /\ req' = [req EXCEPT ![r].at = "holding", ![r].done = 0, ![r].found = FALSE]
    /\ UNCHANGED <<now, users, sessions, tokenCount, cache, hist, loggedOut, faults>>

\* The holder of the guard runs the next query of its function.
Query(r) ==
    LET fn == Scopes(req[r].kind)[req[r].scope]
        qs == Queries(fn, req[r].found)
        q == qs[req[r].done + 1]
        row == {s \in sessions : s.session_token = SharedToken /\ now < s.expires_at}
    IN  /\ req[r].at = "holding"
        /\ req[r].done < Len(qs)
        /\ pool' = [pool EXCEPT !.last = <<r, q>>]
        /\ req' = [req EXCEPT ![r].done = @ + 1,
                              ![r].found = IF q = "select_session" THEN row # {} ELSE @]
        /\ sessions' =
                CASE q = "logout_session" ->
                        {s \in sessions : s.session_token # SharedToken}
                  [] q = "create_user_session" ->
                        sessions \cup {NewSession(1, tokenCount + 1)}
                  [] OTHER -> sessions
        /\ tokenCount' = IF q = "create_user_session" THEN tokenCount + 1 ELSE tokenCount
        /\ UNCHANGED <<now, users, cache, hist, loggedOut, faults>>

\* A database function that never drops its guard.
Release_Leak(r) ==
    LET fn == Scopes(req[r].kind)[req[r].scope]
    IN  /\ req[r].at = "holding"
        /\ req[r].done = Len(Queries(fn, req[r].found))
        /\ req' = [req EXCEPT ![r].at = "idle", ![r].scope = @ + 1]
        /\ UNCHANGED <<now, users, sessions, tokenCount, cache, hist, loggedOut,
                       faults, pool>>

\* The database function returns and its guard is dropped.  A guard that
\* found no session ends the request: from_request fails and the handler
\* does not run.
Release(r) ==
    LET fn == Scopes(req[r].kind)[req[r].scope]
    IN  /\ req[r].at = "holding"
        /\ req[r].done = Len(Queries(fn, req[r].found))
        /\ pool' = [pool EXCEPT !.holders = @ \ {r}]
        /\ req' = [req EXCEPT ![r].at = "idle",
                              ![r].scope = IF fn = "validate_session" /\ ~req[r].found
                                           THEN Len(Scopes(req[r].kind)) + 1
                                           ELSE @ + 1]
        /\ UNCHANGED <<now, users, sessions, tokenCount, cache, hist, loggedOut, faults>>

\* One session of the administrator exists; every request is about to call
\* its first database function.
InitLock ==
    /\ now = 0
    /\ users = SeedUsers
    /\ sessions = {NewSession(1, SharedToken)}
    /\ tokenCount = 1
    /\ cache = [user_session |-> EmptyMap, session_token |-> EmptyMap,
                session |-> EmptyMap, session_access |-> EmptyMap,
                login_failures |-> EmptyMap]
    /\ hist = [u \in LoginNames |-> NoHist]
    /\ loggedOut = EmptyMap
    /\ faults = 0
    /\ pool = IdlePool
    /\ \E kind \in [Requests -> Kinds] :
            req = [r \in Requests |->
                      [kind |-> kind[r], scope |-> 1, at |-> "idle", done |-> 0,
                       found |-> FALSE]]

Step(r) == Acquire(r) \/ Grant(r) \/ Query(r) \/ Release(r)

NextLock == \E r \in Requests : Step(r)

\* Every request is an async task that the runtime keeps polling.
SpecLock == InitLock /\ [][NextLock]_vars /\ \A r \in Requests : WF_vars(Step(r))

Finished(r) == req[r].at = "idle" /\ req[r].scope > Len(Scopes(req[r].kind))

\* C23: access to PostgreSQL is serialized.  At most one request holds the
\* guard of the Mutex, a request that runs queries holds it, and while a
\* request is inside a database function the query the connection ran last
\* is its own: between the SELECT and the UPDATE of one validate_session no
\* query of another request (a logout's DELETE, say) has run.
C23_Serialized ==
    /\ Cardinality(pool.holders) <= 1
    /\ \A r \in Requests :
            /\ req[r].at = "holding" <=> r \in pool.holders
            /\ (req[r].at = "holding" /\ req[r].done > 0) => pool.last[1] = r
            /\ (/\ req[r].at = "holding"
                /\ Scopes(req[r].kind)[req[r].scope] = "validate_session"
                /\ req[r].done = 1)
               => pool.last = <<r, "select_session">>

\* One request is between the SELECT and the UPDATE of validate_session
\* while a logout that has passed its guard waits for the Mutex to run its
\* DELETE.
C23_Witness ==
    \E r, l \in Requests :
        /\ r # l
        /\ req[r].at = "holding"
        /\ Scopes(req[r].kind)[req[r].scope] = "validate_session"
        /\ req[r].done = 1 /\ req[r].found
        /\ req[l].kind = "logout" /\ req[l].scope = 2 /\ req[l].at = "waiting"

\* C24: a lock scope is acquire, queries, release, and none is nested: a
\* request that holds the guard is not waiting for it.  With every request
\* polled fairly, each request that waits for the Mutex gets it, and any mix
\* of concurrent login, logout, resolve and federated login runs to its end.
C24_NoDeadlockNoStarvation ==
    /\ [](\A r \in Requests :
            /\ r \in pool.holders => r \notin Range(pool.waiting)
            /\ req[r].at = "waiting" <=> r \in Range(pool.waiting))
    /\ \A r \in Requests : (req[r].at = "waiting") ~> (r \in pool.holders)
    /\ <>(\A r \in Requests : Finished(r))

\* A login, a logout and a third request, started together, have all
\* returned: the logout deleted the session and the login added its two.
C24_Witness ==
    /\ \A r \in Requests : Finished(r)
    /\ \E r, l \in Requests : req[r].kind = "login" /\ req[l].kind = "logout"
    /\ ~\E s \in sessions : s.session_token = SharedToken
    /\ tokenCount >= 3

\* ------------------------------------------------ WxCrypto on its inputs
\* Result<T, String> of the functions of WxCrypto.
Ok(x) == [ok |-> TRUE, v |-> x]
Err(e) == [ok |-> FALSE, err |-> e]

\* A base64 text argument: malformed, or the encoding of len bytes, which
\* are the key or the vector named id.
KeyTexts == [b64 : BOOLEAN, len : {16, 24}, id : {"k1", "k2"}]
IvTexts == [b64 : BOOLEAN, len : {16, 12}, id : {"iv1", "iv2"}]

\* What was encrypted: the JSON of wx.getUserInfo (all fields, with the
\* watermark), the JSON of wx.getUserProfile (nickName and avatarUrl),
\* JSON of another shape, UTF-8 text that is no JSON, bytes that are no
\* UTF-8.
PlainKinds == {"user_info", "profile", "other_json", "not_json", "not_utf8"}

\* encrypted_data: malformed base64, or a ciphertext made under key k1 and
\* vector iv1 from a plaintext; its length may be no multiple of the block
\* size (aligned = FALSE) and its last block may have been altered.
DataTexts == [b64 : BOOLEAN, aligned : BOOLEAN, corrupted : BOOLEAN, plain : PlainKinds]

\* cipher.decrypt_padded_mut::<Pkcs7>: an unaligned length is an error; an
\* altered last block or another key decrypts to garbage, whose padding is
\* invalid unless its last bytes happen to look like one (luck); another
\* vector garbles the first block of the plaintext.
DecryptPadded(data, key, iv, luck) ==
    IF ~data.aligned THEN None
    ELSE IF data.corrupted \/ key.id # "k1"
    THEN IF luck THEN Some("not_utf8") ELSE None
    ELSE IF iv.id # "iv1"
    THEN Some(IF luck /\ data.plain # "not_utf8" THEN "not_json" ELSE "not_utf8")
    ELSE Some(data.plain)

\* String::from_utf8.
FromUtf8(plain) == IF plain = "not_utf8" THEN None ELSE Some(plain)

\* serde_json::from_str into DecryptedUserInfo, whose fields are all
\* required, or into UserProfileInfo, which requires nickName and avatarUrl
\* and ignores fields it does not know.
FromJson(plain, schema) ==
    IF schema = "DecryptedUserInfo"
    THEN IF plain = "user_info"
         THEN Some([nick_name |-> DecryptedProfile.nick_name,
                    avatar_url |-> DecryptedProfile.avatar_url,
                    watermark |-> [appid |-> AppId]])
         ELSE None
    ELSE IF plain \in {"user_info", "profile"} THEN Some(DecryptedProfile)
    ELSE None

\* The stages of decrypt_user_info and decrypt_user_profile that can fail.
DecryptErrors ==
    {"base64_data", "base64_key", "base64_iv", "key_length", "iv_length",
     "unpad", "utf8", "json"}

\* A decrypt that does not look at the lengths of key and vector.
Decrypt_NoLengthCheck(encrypted_data, session_key, iv, schema, luck) ==
    LET d == DecryptPadded(encrypted_data, session_key, iv, luck)
    IN  IF ~encrypted_data.b64 THEN Err("base64_data")
        ELSE IF ~session_key.b64 THEN Err("base64_key")
        ELSE IF ~iv.b64 THEN Err("base64_iv")
        ELSE IF ~d.some THEN Err("unpad")
        ELSE IF ~FromUtf8(d.v).some THEN Err("utf8")
        ELSE IF ~FromJson(d.v, schema).some THEN Err("json")
        ELSE Ok(FromJson(d.v, schema).v)

\* WxCrypto::decrypt_user_info (schema DecryptedUserInfo) and
\* WxCrypto::decrypt_user_profile (schema UserProfileInfo): base64 of the
\* three arguments, the two lengths, AES-128-CBC with PKCS7, UTF-8, JSON;
\* the first stage that fails returns its Err.
Decrypt(encrypted_data, session_key, iv, schema, luck) ==
    LET d == DecryptPadded(encrypted_data, session_key, iv, luck)
    IN  IF ~encrypted_data.b64 THEN Err("base64_data")
        ELSE IF ~session_key.b64 THEN Err("base64_key")
        ELSE IF ~iv.b64 THEN Err("base64_iv")
        ELSE IF session_key.len # 16 THEN Err("key_length")
        ELSE IF iv.len # 16 THEN Err("iv_length")
        ELSE IF ~d.some THEN Err("unpad")
        ELSE IF ~FromUtf8(d.v).some THEN Err("utf8")
        ELSE IF ~FromJson(d.v, schema).some THEN Err("json")
        ELSE Ok(FromJson(d.v, schema).v)

SchemaOf(fn) ==
    IF fn = "decrypt_user_info" THEN "DecryptedUserInfo" ELSE "UserProfileInfo"

\* The calls of the decrypt functions with their arguments.
DecryptCalls ==
    {[fn |-> f, encrypted_data |-> e, session_key |-> k, iv |-> v, luck |-> l,
      returned |-> FALSE, result |-> Err("none")] :
        f \in {"decrypt_user_info", "decrypt_user_profile"},
        e \in DataTexts, k \in KeyTexts, v \in IvTexts, l \in BOOLEAN}

\* The call returns.
CallDecrypt ==
    /\ req[1].fn \in {"decrypt_user_info", "decrypt_user_profile"}
    /\ ~req[1].returned
    /\ req' = [req EXCEPT ![1].returned = TRUE,
                          ![1].result = Decrypt(req[1].encrypted_data, req[1].session_key,
                                                req[1].iv, SchemaOf(req[1].fn),
                                                req[1].luck)]
    /\ UNCHANGED <<now, users, sessions, tokenCount, cache, hist, loggedOut, faults, pool>>

\* The raw data and the session keys that are signed here.  The sign string
\* is raw_data followed by session_key, so "Nicks" with "k" and "Nick" with
\* "sk" are signed alike.
RawTexts == {"Nick", "Nico", "Nicks"}
SecretTexts == {"sk", "k"}

\* hex::encode(Sha1::digest(text)) of the sign strings above.
Sha1Hex(text) ==
    CASE text = "Nicksk" -> "d48a6fe696ee6174a8a304e68168201559fc9c14"
      [] text = "Nickk" -> "f479df298e130a9b762c08bc3c6be67a63ae4d1b"
      [] text = "Nicosk" -> "1b657407baf31e13784d9a2810ba1382af5b58ae"
      [] text = "Nicok" -> "3c3b1dbe01581231e0b3bdd6e486fee5ba619de7"
      [] text = "Nickssk" -> "46e9040b64ddff356ad38f03dd0d22d20a19902e"

\* The signatures a client sends: digests in lower, upper and mixed case,
\* a digest cut short, the empty text.
SignatureTexts ==
    {"d48a6fe696ee6174a8a304e68168201559fc9c14",
     "D48A6FE696EE6174A8A304E68168201559FC9C14",
     "D48a6fE696ee6174A8a304e68168201559fc9C14",
     "1b657407baf31e13784d9a2810ba1382af5b58ae",
     "1B657407BAF31E13784D9A2810BA1382AF5B58AE",
     "f479df298e130a9b762c08bc3c6be67a63ae4d1b",
     "d48a6fe696ee6174a8a304e68168201559fc9c", ""}

\* str::to_lowercase on the texts above.
ToLowercase(text) ==
    CASE text \in {"D48A6FE696EE6174A8A304E68168201559FC9C14",
                   "D48a6fE696ee6174A8a304e68168201559fc9C14"} ->
            "d48a6fe696ee6174a8a304e68168201559fc9c14"
      [] text = "1B657407BAF31E13784D9A2810BA1382AF5B58AE" ->
            "1b657407baf31e13784d9a2810ba1382af5b58ae"
      [] OTHER -> text

\* A verify_signature that compares the texts as they are.
VerifySignatureText_CaseSensitive(raw_data, session_key, signature) ==
    Ok(Sha1Hex(raw_data \o session_key) = signature)

\* WxCrypto::verify_signature on its three texts: the hex SHA1 of
\* raw_data + session_key against the signature, both in lower case.
VerifySignatureText(raw_data, session_key, signature) ==
    LET sign_string == raw_data \o session_key
        computed_signature == Sha1Hex(sign_string)
    IN  Ok(ToLowercase(computed_signature) = ToLowercase(signature))

\* The calls of verify_signature with their arguments.
VerifyCalls ==
    {[fn |-> "verify_signature", raw_data |-> r, session_key |-> k, signature |-> g,
      returned |-> FALSE, result |-> Err("none")] :
        r \in RawTexts, k \in SecretTexts, g \in SignatureTexts}

\* The call returns.
CallVerifySignature ==
    /\ req[1].fn = "verify_signature"
    /\ ~req[1].returned
    /\ req' = [req EXCEPT ![1].returned = TRUE,
                          ![1].result = VerifySignatureText(req[1].raw_data,
                                                            req[1].session_key,
                                                            req[1].signature)]
    /\ UNCHANGED <<now, users, sessions, tokenCount, cache, hist, loggedOut, faults, pool>>

\* One call of a function of WxCrypto is about to be made.
InitCrypto ==
    /\ now = 0
    /\ users = SeedUsers
    /\ sessions = {}
    /\ tokenCount = 0
    /\ cache = [user_session |-> EmptyMap, session_token |-> EmptyMap,
                session |-> EmptyMap, session_access |-> EmptyMap,
                login_failures |-> EmptyMap]
    /\ hist = [u \in LoginNames |-> NoHist]
    /\ loggedOut = EmptyMap
    /\ faults = 0
    /\ pool = IdlePool
    /\ \E call \in DecryptCalls \cup VerifyCalls : req = <<call>>

NextCrypto == CallDecrypt \/ CallVerifySignature

SpecCrypto == InitCrypto /\ [][NextCrypto]_vars

\* C29: decrypt returns Err, and one of its own, when an argument is
\* malformed base64, when the key or the vector does not decode to exactly
\* 16 bytes, when the ciphertext does not unpad, and when the plaintext is
\* not UTF-8 JSON of the expected shape; it returns a profile only when the
\* three arguments decode, key and vector are 16 bytes long, and the
\* ciphertext is an unaltered encryption, under that key and vector, of JSON
\* of the expected shape.
C29_DecryptStructuredErrors ==
    LET c == req[1]
    IN  (c.fn \in {"decrypt_user_info", "decrypt_user_profile"} /\ c.returned) =>
            LET d == DecryptPadded(c.encrypted_data, c.session_key, c.iv, c.luck)
                expected == IF c.fn = "decrypt_user_info" THEN {"user_info"}
                            ELSE {"user_info", "profile"}
            IN  /\ c.result.ok \/ c.result.err \in DecryptErrors
                /\ (~c.encrypted_data.b64 \/ ~c.session_key.b64 \/ ~c.iv.b64)
                        => ~c.result.ok
                /\ (c.session_key.len # 16 \/ c.iv.len # 16) => ~c.result.ok
                /\ ~d.some => ~c.result.ok
                /\ (d.some /\ d.v \notin expected) => ~c.result.ok
                /\ c.result.ok <=>
                        /\ c.encrypted_data.b64 /\ c.session_key.b64 /\ c.iv.b64
                        /\ c.session_key.len = 16 /\ c.iv.len = 16
                        /\ c.encrypted_data.aligned /\ ~c.encrypted_data.corrupted
                        /\ c.session_key.id = "k1" /\ c.iv.id = "iv1"
                        /\ c.encrypted_data.plain \in expected
                /\ c.result.ok =>
                        /\ c.result.v.nick_name = DecryptedProfile.nick_name
                        /\ c.result.v.avatar_url = DecryptedProfile.avatar_url

\* decrypt_user_info has returned the error of the key length for a key
\* that decodes to 24 bytes, with everything else in order.
C29_Witness ==
    /\ req[1].fn = "decrypt_user_info"
    /\ req[1].returned
    /\ req[1].session_key = [b64 |-> TRUE, len |-> 24, id |-> "k1"]
    /\ req[1].iv = [b64 |-> TRUE, len |-> 16, id |-> "iv1"]
    /\ req[1].encrypted_data.b64 /\ req[1].encrypted_data.plain = "user_info"
    /\ req[1].result = Err("key_length")

\* C30: verify_signature answers Ok(true) exactly when the signature, in
\* lower case, is the hex SHA1 of raw_data followed by session_key, and
\* never Err; the same arguments give the same answer, the case of the
\* signature does not matter, and a signature accepted for one raw_data is
\* rejected for every other raw_data under the same key.
C30_VerifySignature ==
    LET c == req[1]
    IN  (c.fn = "verify_signature" /\ c.returned) =>
            /\ c.result.ok
            /\ c.result.v <=>
                    ToLowercase(c.signature) = Sha1Hex(c.raw_data \o c.session_key)
            /\ c.result = VerifySignatureText(c.raw_data, c.session_key, c.signature)
            /\ \A g \in SignatureTexts :
                    ToLowercase(g) = ToLowercase(c.signature) =>
                        VerifySignatureText(c.raw_data, c.session_key, g) = c.result
            /\ c.result.v =>
                    \A raw \in RawTexts \ {c.raw_data} :
                        ~VerifySignatureText(raw, c.session_key, c.signature).v

\* verify_signature has accepted the upper-case digest of "Nick" and "sk".
C30_Witness ==
    /\ req[1].fn = "verify_signature"
    /\ req[1].returned
    /\ req[1].raw_data = "Nick" /\ req[1].session_key = "sk"
    /\ req[1].signature = "D48A6FE696EE6174A8A304E68168201559FC9C14"
    /\ req[1].result = Ok(TRUE)

\* ------------------------------------------------ handlers under concurrency
\* Rocket runs the handlers as tasks that interleave at every await: a Redis
\* command and a database function are each one step, and nothing orders
\* the steps of different requests.  A request is what it calls (kind, arg),
\* where it is (pc), what its last read returned (got) and its response.
RaceInputs ==
    {<<"resolve", SharedToken>>, <<"logout", SharedToken>>,
     <<"login", "wrong">>, <<"login", "password">>}
        \cup {<<"wx_login", o>> : o \in OpenIds}

StartOf(kind) ==
    CASE kind \in {"resolve", "logout"} -> "get"
      [] kind = "login" -> "check_lock"
      [] kind = "wx_login" -> "find"

\* The request moves on to pc.
Goto(r, pc) == [req EXCEPT ![r].pc = pc]

\* The request returns its response.
Return(r, outcome) == [req EXCEPT ![r].pc = "done", ![r].outcome = outcome]

\* The guard has answered Success: a resolve returns, a logout goes on to
\* its handler.
Guarded(r, got) ==
    IF req[r].kind = "resolve"
    THEN [req EXCEPT ![r].pc = "done", ![r].outcome = "Success", ![r].got = got]
    ELSE [req EXCEPT ![r].pc = "delete", ![r].got = got]

\* AuthenticatedUser::from_request, one await at a time: GET of the combined
\* entry; on a hit the marker write; on a miss validate_session and, for the
\* row it returned, the SET of the combined entry.
GuardStep(r) ==
    LET tok == req[r].arg
        cached == RedisGet(cache.user_session, tok, FALSE)
        row == ValidateSession(tok)
    IN  /\ req[r].kind \in {"resolve", "logout"}
        /\ \/ /\ req[r].pc = "get"
              /\ req' = IF cached.some
                        THEN [req EXCEPT ![r].pc = "set_access", ![r].got = cached]
                        ELSE Goto(r, "validate")
              /\ UNCHANGED cache
           \/ /\ req[r].pc = "set_access"
              /\ cache' = UpdateSessionAccess(cache, tok, FALSE)
              /\ req' = Guarded(r, req[r].got)
           \/ /\ req[r].pc = "validate"
              /\ req' = IF row.some
                        THEN [req EXCEPT ![r].pc = "cache", ![r].got = row]
                        ELSE Return(r, "Invalid")
              /\ UNCHANGED cache
           \/ /\ req[r].pc = "cache"
              /\ cache' = CacheUserSession(cache, req[r].got.v.user,
                                           req[r].got.v.session, FALSE)
              /\ req' = Guarded(r, req[r].got)
        /\ UNCHANGED <<now, users, sessions, tokenCount, hist, loggedOut, faults, pool>>

\* routes::auth::logout behind the guard: handle_logout deletes the row of
\* the guard's session, then invalidate_session clears its cache entries.
LogoutStep(r) ==
    LET t == req[r].got.v.session.session_token
    IN  /\ req[r].kind = "logout"
        /\ \/ /\ req[r].pc = "delete"
              /\ sessions' = LogoutSession(t)
              /\ req' = Goto(r, "invalidate")
              /\ UNCHANGED cache
           \/ /\ req[r].pc = "invalidate"
              /\ cache' = InvalidateSession(cache, t, {})
              /\ req' = Return(r, "logged_out")
              /\ UNCHANGED sessions
        /\ UNCHANGED <<now, users, tokenCount, hist, loggedOut, faults, pool>>

\* routes::auth::login, one await at a time: the lock check; the credential
\* check of the use case; for a rejected attempt the INCR and the EXPIRE of
\* record_login_failure; for an accepted one the session of the use case,
\* the second credential check, the session of the response, the SET of the
\* combined entry and the DEL of the counter.
LoginStep(r) ==
    LET username == "admin"
        a == AuthenticateUser(username, req[r].arg)
        is_locked == IsAccountLocked(cache, username, MAX_ATTEMPTS, FALSE)
        s == NewSession(1, tokenCount + 1)
    IN  /\ req[r].kind = "login"
        /\ \/ /\ req[r].pc = "check_lock"
              /\ req' = IF is_locked.v THEN Return(r, "locked") ELSE Goto(r, "verify")
              /\ UNCHANGED <<sessions, tokenCount, cache, hist>>
           \/ /\ req[r].pc = "verify"
              /\ req' = Goto(r, IF a.some THEN "create1" ELSE "incr")
              /\ hist' = IF a.some THEN hist
                         ELSE [hist EXCEPT ![username].failed = @ + 1]
              /\ UNCHANGED <<sessions, tokenCount, cache>>
           \/ /\ req[r].pc = "incr"
              /\ cache' = [cache EXCEPT !.login_failures =
                                RedisIncrement(@, username, FALSE)]
              /\ req' = Goto(r, "expire")
              /\ UNCHANGED <<sessions, tokenCount, hist>>
           \/ /\ req[r].pc = "expire"
              /\ cache' = [cache EXCEPT !.login_failures =
                                RedisExpire(@, username, LOGIN_ATTEMPTS, FALSE)]
              /\ req' = Return(r, "invalid_credentials")
              /\ UNCHANGED <<sessions, tokenCount, hist>>
           \/ /\ req[r].pc \in {"create1", "create2"}
              /\ sessions' = sessions \cup {s}
              /\ tokenCount' = tokenCount + 1
              /\ req' = IF req[r].pc = "create1" THEN Goto(r, "verify2")
                        ELSE [req EXCEPT ![r].pc = "cache", ![r].got = Some(s)]
              /\ UNCHANGED <<cache, hist>>
           \/ /\ req[r].pc = "verify2"
              /\ req' = IF a.some THEN Goto(r, "create2")
                        ELSE Return(r, "success_no_session")
              /\ UNCHANGED <<sessions, tokenCount, cache, hist>>
           \/ /\ req[r].pc = "cache"
              /\ cache' = CacheUserSession(cache, a.v, req[r].got.v, FALSE)
              /\ req' = Goto(r, "clear")
              /\ UNCHANGED <<sessions, tokenCount, hist>>
           \/ /\ req[r].pc = "clear"
              /\ cache' = ClearLoginFailures(cache, username, FALSE)
              /\ req' = Return(r, "success")
              /\ UNCHANGED <<sessions, tokenCount, hist>>
        /\ UNCHANGED <<now, users, loggedOut, faults, pool>>

\* WxAuthUseCase::handle_wx_login for a code that exchanges to the openid
\* arg, without a profile bundle, one database function at a time:
\* find_user_by_openid, then update_wx_user_session for the user found or
\* create_wx_user when none was found, then create_user_session.
WxLoginStep(r) ==
    LET openid == req[r].arg
        found == {id \in DOMAIN users : users[id].wx_openid = openid}
        id == Cardinality(DOMAIN users) + 1
    IN  /\ req[r].kind = "wx_login"
        /\ \/ /\ req[r].pc = "find"
              /\ req' = IF found # {}
                        THEN [req EXCEPT ![r].pc = "update_session",
                                         ![r].got = Some(CHOOSE i \in found : TRUE)]
                        ELSE Goto(r, "create")
              /\ UNCHANGED <<users, sessions, tokenCount>>
           \/ /\ req[r].pc = "update_session"
              /\ users' = [users EXCEPT ![req[r].got.v].wx_session_key = SessionKey]
              /\ req' = Goto(r, "create_session")
              /\ UNCHANGED <<sessions, tokenCount>>
           \/ /\ req[r].pc = "create"
              /\ IF CanInsertUser(users, NewWxUser(openid))
                 THEN /\ users' = (id :> NewWxUser(openid)) @@ users
                      /\ req' = [req EXCEPT ![r].pc = "create_session",
                                            ![r].got = Some(id)]
                 ELSE /\ req' = Return(r, "user_failed")
                      /\ UNCHANGED users
              /\ UNCHANGED <<sessions, tokenCount>>
           \/ /\ req[r].pc = "create_session"
              /\ sessions' = sessions \cup {NewSession(req[r].got.v, tokenCount + 1)}
              /\ tokenCount' = tokenCount + 1
              /\ req' = Return(r, "success")
              /\ UNCHANGED users
        /\ UNCHANGED <<now, cache, hist, loggedOut, faults, pool>>

\* The requests have arrived together.  One session of the administrator
\* exists, cached by an earlier resolve or not, and the administrator's
\* login has been rejected not at all or MAX_ATTEMPTS - 1 times just now.
InitRace ==
    /\ now = 0
    /\ users = SeedUsers
    /\ sessions = {NewSession(1, SharedToken)}
    /\ tokenCount = 1
    /\ \E cached \in BOOLEAN, n \in {0, MAX_ATTEMPTS - 1} :
          /\ cache =
                [user_session |->
                    IF cached
                    THEN CacheUserSession(
                            [user_session |-> EmptyMap], UserOf(1),
                            NewSession(1, SharedToken), FALSE).user_session
                    ELSE EmptyMap,
                 session_token |-> EmptyMap, session |-> EmptyMap,
                 session_access |-> EmptyMap,
                 login_failures |->
                    IF n = 0 THEN EmptyMap
                    ELSE ("admin" :> [v |-> n, exp |-> now + LOGIN_ATTEMPTS])]
          /\ hist = [u \in LoginNames |-> [NoHist EXCEPT !.failed = n]]
    /\ loggedOut = EmptyMap
    /\ faults = 0
    /\ pool = IdlePool
    /\ \E in \in [Requests -> RaceInputs] :
            req = [r \in Requests |->
                      [kind |-> in[r][1], arg |-> in[r][2], pc |-> StartOf(in[r][1]),
                       got |-> None, outcome |-> "none"]]

\* POST /api/cache/cleanup by an administrator: the cleanup of the session
\* caches runs between the steps of the other requests.
CacheCleanup ==
    /\ cache' = CacheCleanupExpiredSessions(cache, {})
    /\ UNCHANGED <<now, users, sessions, tokenCount, hist, loggedOut, faults, pool, req>>

NextRace ==
    \/ \E r \in Requests : GuardStep(r) \/ LogoutStep(r) \/ LoginStep(r) \/ WxLoginStep(r)
    \/ CacheCleanup
    \/ Tick

SpecRace == InitRace /\ [][NextRace]_vars

\* Every request has returned.
AllReturned == \A r \in Requests : req[r].pc = "done"

\* C32: once a logout of a token and the resolves that ran with it have
\* all returned, the cache holds no identity under the token and a resolve
\* of the token fails.
C32_LogoutWinsOverConcurrentResolve ==
    (/\ AllReturned
     /\ \A r \in Requests : req[r].kind \in {"resolve", "logout"}
     /\ \E r \in Requests : req[r].outcome = "logged_out")
        => /\ ~RedisGet(cache.user_session, SharedToken, FALSE).some
           /\ FromRequest(cache, SharedToken, {}, {}).outcome # "Success"

\* C33: however concurrent logins with a wrong password interleave, at most
\* MAX_ATTEMPTS credential checks of wrong passwords are made within the
\* window and the failure counter never exceeds MAX_ATTEMPTS.
C33_LockoutHoldsUnderConcurrency ==
    (\A r \in Requests : req[r].kind = "login" /\ req[r].arg = "wrong")
        => /\ hist["admin"].failed <= MAX_ATTEMPTS
           /\ GetLoginFailures(cache, "admin", FALSE).v <= MAX_ATTEMPTS

\* C38: after the cleanup of the session caches no combined entry, which is
\* what the guard answers from, belongs to a session whose expires_at is
\* before now, and every combined entry of a session that has not expired
\* is still there.
C38_CacheCleanupRemovesExpired ==
    LET after == CacheCleanupExpiredSessions(cache, {})
    IN  /\ \A t \in DOMAIN after.user_session :
                ~(after.user_session[t].v.session.expires_at < now)
        /\ \A t \in DOMAIN cache.user_session :
                ~(cache.user_session[t].v.session.expires_at < now)
                    => /\ t \in DOMAIN after.user_session
                       /\ after.user_session[t] = cache.user_session[t]

\* C40: with PostgreSQL available, every federated login with a valid code
\* for an openid that no user carried yet returns success, also when
\* several logins for that openid run concurrently.
C40_ConcurrentFirstLoginsSucceed ==
    \A r \in Requests :
        (req[r].kind = "wx_login" /\ req[r].pc = "done") => req[r].outcome = "success"

\* The cached tokens whose entry embeds user_id.
CachedOf(user_id) ==
    {t \in DOMAIN cache.user_session : cache.user_session[t].v.user.id = user_id}

AddedBy(r) == r.sessions \ sessions

\* A new row of user_id: a token no existing row carries, expiry 7 days on.
FreshRowOf(s, user_id) ==
    /\ s.user_id = user_id
    /\ s.expires_at = now + SESSION_DAYS
    /\ \A x \in sessions : x.session_token # s.session_token /\ x.id # s.id

\* C15: every create_user_session of a WeChat login or of a password login
\* adds exactly one row, owned by the given user, with a token that no
\* existing row carries and expires_at = now + 7 days, and the handler gets
\* that row back; when its INSERT fails no row is added; it is not called
\* (and no row is added) when an earlier step of the handler failed.
C15_CreateUserSession ==
    /\ \A exch \in OpenIds, b \in Bundles, df \in WxDbPatterns :
            LET r == WxLoginResult(exch, b, df)
                u == FindOrCreateWxUser(exch, df)
            IN  IF u.ok /\ "create_session" \notin df
                THEN /\ r.outcome = "success"
                     /\ \E s \in AddedBy(r) :
                            /\ AddedBy(r) = {s}
                            /\ FreshRowOf(s, u.id) /\ s.session_token = r.token
                            /\ r.users[u.id].wx_openid = exch
                ELSE r.sessions = sessions /\ r.token = NoToken
    /\ \A n \in LoginNames, p \in Passwords, df \in SUBSET LoginDbOps :
            LET e == ExecuteLogin(n, p, df)
                r == LoginResult(n, p, {"get_failures"}, df)
                a == AuthenticateUser(n, p)
            IN  /\ IF a.some /\ df \cap {"auth1", "create1"} = {}
                   THEN \E s \in e.sessions \ sessions :
                            e.sessions \ sessions = {s} /\ FreshRowOf(s, a.v.id)
                   ELSE e.sessions = sessions
                /\ IF a.some /\ df = {}
                   THEN \E s \in AddedBy(r) \ e.sessions :
                            /\ AddedBy(r) \ e.sessions = {s}
                            /\ FreshRowOf(s, a.v.id) /\ s.session_token = r.token
                            /\ s \notin e.sessions
                            /\ \A x \in e.sessions : x.session_token # s.session_token
                   ELSE r.sessions = e.sessions /\ r.token = NoToken
    /\ \A s1 \in sessions, s2 \in sessions :
            s1.session_token = s2.session_token => s1 = s2

\* A session exists and a WeChat login adds another one with a new token.
C15_Witness ==
    \E exch \in OpenIds :
        /\ sessions # {}
        /\ WxLoginResult(exch, "none", {}).outcome = "success"
        /\ Cardinality(WxLoginResult(exch, "none", {}).sessions) = Cardinality(sessions) + 1
        /\ WxLoginResult(exch, "none", {}).token \notin {s.session_token : s \in sessions}

\* C16: cleanup_expired_sessions deletes exactly the rows with
\* expires_at < now (rows_affected is their number) and keeps every row with
\* expires_at >= now, so validate_session answers for every token what it
\* answered before the sweep.
C16_SweepDeletesExpiredOnly ==
    LET kept == CleanupExpiredSessions(sessions)
        valid(rows, tok) == {s \in rows : s.session_token = tok /\ s.expires_at > now
                                            /\ users[s.user_id].is_active}
    IN  /\ kept = {s \in sessions : s.expires_at >= now}
        /\ sessions \ kept = {s \in sessions : s.expires_at < now}
        /\ Cardinality(sessions) - Cardinality(kept)
                = Cardinality({s \in sessions : s.expires_at < now})
        /\ \A tok \in Presented :
                /\ valid(kept, tok) = valid(sessions, tok)
                /\ ValidateSession(tok).some => ValidateSession(tok).v.session \in kept

\* An expired row and a row that expires at this instant exist: the sweep
\* deletes the first and keeps the second.
C16_Witness ==
    /\ \E s \in sessions : s.expires_at < now /\ s \notin CleanupExpiredSessions(sessions)
    /\ \E s \in sessions : s.expires_at = now /\ s \in CleanupExpiredSessions(sessions)

\* C17: profile enrichment is optional.  When a federated login carries a
\* profile bundle whose signature does not match or whose data does not
\* decrypt, and its queries succeed, the login still succeeds and creates a
\* session for the user of the openid, and that user's nickname and avatar
\* in the users table are what they were before (unset for a new user).
FailingBundles == {"bad", "undecryptable"}

WxUserOf(us, openid) == {id \in DOMAIN us : us[id].wx_openid = openid}

C17_EnrichmentOptional ==
    \A exch \in OpenIds, b \in FailingBundles :
        LET r == WxLoginResult(exch, b, {})
            before == WxUserOf(users, exch)
        IN  /\ r.outcome = "success"
            /\ \E id \in WxUserOf(r.users, exch) :
                    /\ \E s \in r.sessions \ sessions :
                            s.user_id = id /\ s.session_token = r.token
                    /\ IF before = {}
                       THEN r.users[id].full_name = Null
                            /\ r.users[id].avatar_url = Null
                       ELSE id \in before
                            /\ r.users[id].full_name = users[id].full_name
                            /\ r.users[id].avatar_url = users[id].avatar_url

\* A federated user without a nickname holds a session, a further login of
\* theirs with a wrongly signed bundle succeeds, and the nickname stays unset.
C17_Witness ==
    \E exch \in OpenIds, id \in DOMAIN users :
        /\ users[id].wx_openid = exch
        /\ users[id].full_name = Null
        /\ \E s \in sessions : s.user_id = id
        /\ WxLoginResult(exch, "bad", {}).outcome = "success"
        /\ WxLoginResult(exch, "bad", {}).users[id].full_name = Null
        /\ ~ProcessEncryptedUserInfo(users, id, "bad", {}).ok

\* C18: the stages of the enrichment run in the order signature
\* verification, decryption, watermark check, and a hard failure ends the
\* run: after a signature mismatch nothing else is called, after a
\* decryption error neither the watermark check nor the UPDATE is, and the
\* users table is written only when the signature verified and the data
\* decrypted.  The same holds for the two stages of the profile update.
LoginStages ==
    <<"verify_signature", "decrypt_user_info", "verify_watermark",
      "update_wx_user_profile">>

ProfileStages ==
    <<"verify_signature", "decrypt_user_profile", "update_wx_user_profile">>

IsPrefix(st, all) == Len(st) <= Len(all) /\ st = SubSeq(all, 1, Len(st))

C18_StagesInOrder ==
    \A id \in DOMAIN users, b \in Bundles \ {"none"}, df \in SUBSET {"update_profile"} :
        LET e == ProcessEncryptedUserInfo(users, id, b, df)
            p == ProcessUserProfileUpdate(users, id, b, df)
        IN  /\ IsPrefix(e.stages, LoginStages)
            /\ IsPrefix(p.stages, ProfileStages)
            /\ ~VerifySignature(b) =>
                    e.stages = <<"verify_signature">> /\ p.stages = <<"verify_signature">>
            /\ (VerifySignature(b) /\ ~DecryptUserInfo(b).some) => Len(e.stages) = 2
            /\ (VerifySignature(b) /\ ~DecryptUserProfile(b).some) => Len(p.stages) = 2
            /\ (VerifySignature(b) /\ DecryptUserInfo(b).some) => e.stages = LoginStages
            /\ e.users # users => VerifySignature(b) /\ DecryptUserInfo(b).some
            /\ p.users # users => VerifySignature(b) /\ DecryptUserProfile(b).some
            /\ \A exch \in OpenIds :
                    LET r == WxLoginResult(exch, b, df)
                    IN  (\E u \in DOMAIN r.users \cap DOMAIN users :
                            r.users[u].full_name # users[u].full_name)
                        => VerifySignature(b) /\ DecryptUserInfo(b).some

\* A federated user has been enriched, and for that user a wrongly signed
\* bundle ends after the signature stage, an undecryptable one after the
\* decryption, and a good one runs all four stages and writes.
C18_Witness ==
    \E id \in DOMAIN users :
        /\ users[id].wx_openid # Null
        /\ users[id].full_name = DecryptedProfile.nick_name
        /\ ProcessEncryptedUserInfo(users, id, "bad", {}).stages = <<"verify_signature">>
        /\ Len(ProcessEncryptedUserInfo(users, id, "undecryptable", {}).stages) = 2
        /\ ProcessEncryptedUserInfo(users, id, "ok", {}).stages = LoginStages

\* C19: when a federated login that returns a session has rewritten the
\* nickname or the avatar of its user, no cached identity of that user that
\* can still be read carries the name or the avatar from before the update.
C19_EnrichmentInvalidatesCaches ==
    [][\A id \in DOMAIN users :
            (/\ users[id].wx_openid # Null
             /\ tokenCount' = tokenCount + 1
             /\ \/ users'[id].full_name # users[id].full_name
                \/ users'[id].avatar_url # users[id].avatar_url)
            => \A tok \in DOMAIN cache'.user_session :
                    LET cu == cache'.user_session[tok].v.user
                    IN  cu.id = id => /\ cu.full_name = users'[id].full_name
                                      /\ cu.avatar_url = users'[id].avatar_url]_vars

\* C20: a watermark mismatch is a soft failure.  For a bundle whose signature
\* verifies and whose data decrypts to a profile watermarked for another app,
\* the mismatch is warned about, the nickname and the avatar are written to
\* the user and the login succeeds; for a bundle whose signature does not
\* match or whose data does not decrypt the users table is left as
\* find_or_create_wx_user left it.
C20_WatermarkSoftFail ==
    \A exch \in OpenIds :
        LET u == FindOrCreateWxUser(exch, {})
            e == ProcessEncryptedUserInfo(u.users, u.id, "foreign", {})
            r == WxLoginResult(exch, "foreign", {})
        IN  /\ VerifySignature("foreign")
            /\ DecryptUserInfo("foreign").some
            /\ ~VerifyWatermark(DecryptUserInfo("foreign").v, AppId)
            /\ e.ok /\ e.warned
            /\ r.outcome = "success"
            /\ r.users[u.id].full_name = DecryptUserInfo("foreign").v.nick_name
            /\ r.users[u.id].avatar_url = DecryptUserInfo("foreign").v.avatar_url
            /\ \E s \in r.sessions \ sessions : s.user_id = u.id
            /\ \A b \in FailingBundles :
                    /\ ~ProcessEncryptedUserInfo(u.users, u.id, b, {}).ok
                    /\ WxLoginResult(exch, b, {}).users = u.users

\* A federated user carries the decrypted nickname, and a further login of
\* theirs with a bundle watermarked for another app is warned about and
\* writes the profile.
C20_Witness ==
    \E exch \in OpenIds, id \in DOMAIN users :
        /\ users[id].wx_openid = exch
        /\ users[id].full_name = DecryptedProfile.nick_name
        /\ \E s \in sessions : s.user_id = id
        /\ ProcessEncryptedUserInfo(users, id, "foreign", {}).warned
        /\ ProcessEncryptedUserInfo(users, id, "foreign", {}).ok
        /\ WxLoginResult(exch, "foreign", {}).outcome = "success"

\* C21: when the code exchange fails (transport error, non-2xx status,
\* unparsable body or non-zero errcode), whatever the bundle and whether
\* PostgreSQL answers or is down, the federated login
\* answers the generic alert "authorization failed", the users table and the sessions are what they
\* were, no token is issued, and no part of the alert is the upstream text
\* or the error text of code2session.
C21_ExchangeFailureIsGeneric ==
    \A exch \in ExchangeFailures :
        LET wx_response == Code2Session(exch)
        IN  /\ ~wx_response.some
            /\ \A b \in Bundles, df \in {{}, WxDbOps} :
                    LET r == WxLoginResult(exch, b, df)
                    IN  /\ r.outcome = "wx_api_failed"
                        /\ r.alert = <<AlertLoginFailed, AlertWxAuthFailed>>
                        /\ r.users = users
                        /\ r.sessions = sessions
                        /\ r.tokens = tokenCount /\ r.token = NoToken
                        /\ Range(r.alert) \cap Range(wx_response.err) = {}
                        /\ UpstreamText(exch) \notin Range(r.alert)

\* A federated user and a session of theirs exist, and a further login
\* whose exchange answers a non-zero errcode changes neither.
C21_Witness ==
    /\ \E id \in DOMAIN users : /\ users[id].wx_openid \in OpenIds
                                 /\ \E s \in sessions : s.user_id = id
    /\ WxLoginResult("errcode", "ok", {}).outcome = "wx_api_failed"
    /\ WxLoginResult("errcode", "ok", {}).users = users
    /\ Code2Session("errcode").err[2] = UpstreamText("errcode")

\* C22: the federated login resolves its user by openid.  When a user with
\* the openid exists it is reused and the set of users stays as it is; when
\* none exists, and no query fails, exactly one user is created, with
\* is_guest and is_active set, an empty password and that openid.
C22_FindOrCreateByOpenid ==
    \A openid \in AllOpenIds :
        LET r == FindOrCreateWxUser(openid, {})
            found == WxUserOf(users, openid)
        IN  IF found # {}
            THEN /\ r.ok /\ r.id \in found
                 /\ DOMAIN r.users = DOMAIN users
            ELSE /\ r.ok
                 /\ Cardinality(DOMAIN r.users) = Cardinality(DOMAIN users) + 1
                 /\ DOMAIN r.users \ DOMAIN users = {r.id}
                 /\ r.users[r.id].is_guest /\ r.users[r.id].is_active
                 /\ r.users[r.id].password = ""
                 /\ r.users[r.id].wx_openid = openid
                 /\ \A i \in DOMAIN users : r.users[i] = users[i]

\* C25: when a query of a login fails, the alert returned to the client
\* consists of generic texts only and no part of it is the text of the
\* database error.
GenericTexts ==
    {"login failed", "wrong username or password, enter again",
     "operation failed", "Internal error: ", "session creation failed"}

C25_LoginFailureIsGeneric ==
    \A u \in LoginNames, p \in Passwords, df \in SUBSET LoginDbOps :
        ExecuteLogin(u, p, df).command # "sequence" =>
            /\ DbErrorText \notin Range(HandleLoginAlert(u, p, df))
            /\ Range(HandleLoginAlert(u, p, df)) \subseteq GenericTexts

C27_AdminGuard ==
    \A tok \in Presented, f \in GuardFaults :
        LET r == FromRequest(cache, tok, f[1], f[2])
            a == AdminFromRequest(cache, tok, f[1], f[2])
        IN  /\ a.outcome = "Success" <=>
                    (r.outcome = "Success" /\ r.identity.v.user.is_admin)
            /\ a.outcome = "Success" => a.identity = r.identity
            /\ (r.outcome = "Success" /\ ~r.identity.v.user.is_admin) =>
                    a.outcome = "Invalid" /\ a.status = "Forbidden"
            /\ r.outcome # "Success" =>
                    /\ a.outcome = r.outcome
                    /\ a.status = StatusOf(r.outcome)
                    /\ a.status # "Forbidden"

\* A federated user, who is no administrator, holds a valid token: the
\* admin guard answers it Forbidden, a request without a token Missing and
\* the same token with PostgreSQL down and nothing cached DatabaseError.
C27_Witness ==
    \E tok \in 1..tokenCount :
        /\ FromRequest(cache, tok, {}, {}).outcome = "Success"
        /\ ~FromRequest(cache, tok, {}, {}).identity.v.user.is_admin
        /\ AdminFromRequest(cache, tok, {}, {}).status = "Forbidden"
        /\ AdminFromRequest(cache, NoToken, {}, {}).outcome = "Missing"
        /\ AdminFromRequest(cache, tok, GuardCacheOps, GuardDbOps).outcome
                = "DatabaseError"

\* C28: the optional guard never fails.  For every credential and every
\* set of failing Redis commands and queries it answers Success, with the
\* identity of the plain guard when that one succeeds and with none
\* otherwise.
C28_OptionalGuard ==
    \A tok \in Presented, f \in GuardFaults :
        LET r == FromRequest(cache, tok, f[1], f[2])
            o == OptionalFromRequest(cache, tok, f[1], f[2])
        IN  /\ o.outcome = "Success"
            /\ o.identity.some <=> r.outcome = "Success"
            /\ r.outcome = "Success" => o.identity = r.identity

\* A valid token exists: the optional guard carries its identity, and it
\* carries none, without failing, for no token, for a value that never was
\* a token and for the valid token while Redis and PostgreSQL are down.
C28_Witness ==
    \E tok \in 1..tokenCount :
        /\ OptionalFromRequest(cache, tok, {}, {}).identity.some
        /\ FromRequest(cache, NoToken, {}, {}).outcome = "Missing"
        /\ FromRequest(cache, BadToken, {}, {}).outcome = "Invalid"
        /\ FromRequest(cache, tok, GuardCacheOps, GuardDbOps).outcome = "DatabaseError"
        /\ OptionalFromRequest(cache, tok, GuardCacheOps, GuardDbOps)
                = [outcome |-> "Success", identity |-> None, cache |-> cache]

\* The unexpired session rows of user_id.
LiveSessionsOf(user_id) ==
    {s \in sessions : s.user_id = user_id /\ s.expires_at > now}

C34_SuccessCommandCarriesSession ==
    \A u \in LoginNames, p \in Passwords, df \in SUBSET LoginDbOps :
        LET r == LoginResult(u, p, {}, df)
        IN  r.outcome \in {"success", "success_no_session"} =>
                /\ r.token # NoToken
                /\ \E s \in r.sessions : s.session_token = r.token
                /\ GetLoginFailures(r.cache, u, FALSE) = Some(0)

\* C35: a successful password login adds exactly one row to user_sessions,
\* the row of the token it returns and caches.
C35_OneSessionPerLogin ==
    \A u \in LoginNames, p \in Passwords :
        LET r == LoginResult(u, p, {}, {})
        IN  r.outcome = "success" =>
                /\ \E s \in r.sessions : AddedBy(r) = {s} /\ s.session_token = r.token
                /\ RedisGet(r.cache.user_session, r.token, FALSE).some

\* C36: a login that is rejected for invalid credentials adds one to the
\* failure counter of the username; a login that fails because a query of
\* PostgreSQL failed leaves the counter as it was.
C36_OnlyRejectionsCount ==
    \A u \in LoginNames, p \in Passwords, df \in SUBSET LoginDbOps :
        LET r == LoginResult(u, p, {}, df)
            before == GetLoginFailures(cache, u, FALSE).v
            after == GetLoginFailures(r.cache, u, FALSE).v
        IN  /\ r.outcome = "invalid_credentials" => after = before + 1
            /\ r.outcome \in {"db_error", "session_error"} => after = before

\* C37: every failure counter in Redis has a time to live, which ends at
\* most LOGIN_ATTEMPTS from now.
C37_CounterAlwaysExpires ==
    \A u \in DOMAIN cache.login_failures :
        /\ cache.login_failures[u].exp # NoTTL
        /\ cache.login_failures[u].exp <= now + LOGIN_ATTEMPTS

\* C39: a user whose stored password hash is empty is not authenticated by
\* authenticate_user and gets no session from the login route, whatever
\* password is supplied, the empty one included.
C39_EmptyCredentialNeverAuthenticates ==
    \A id \in DOMAIN users :
        users[id].password = "" =>
            \A p \in Passwords \cup {""}, df \in SUBSET LoginDbOps :
                LET r == LoginResult(users[id].username, p, {}, df)
                IN  /\ ~AuthenticateUser(users[id].username, p).some
                    /\ r.outcome \notin {"success", "success_no_session"}
                    /\ r.token = NoToken
                    /\ r.sessions = sessions

\* A WeChat user exists, and a login with its username and the empty
\* password is rejected for invalid credentials.
C39_Witness ==
    \E id \in DOMAIN users :
        /\ users[id].password = "" /\ users[id].wx_openid # Null
        /\ users[id].is_active
        /\ LoginResult(users[id].username, "", {}, {}).outcome = "invalid_credentials"

====
